---- MODULE Spec2Model ----
(***************************************************************************)
(* A model of WorldPopPy's manifest synchronisation (manifest.py), query   *)
(* resolution (manifest.py) and download engine (download.py).             *)
(*                                                                         *)
(* Three specifications share the module:                                  *)
(*   SpecSync      build_wp_manifest and the FTP channel it uses           *)
(*   SpecResolve   wp_manifest / wp_manifest_constrained as functions      *)
(*   SpecDownload  WorldPopDownloader.download and its per-file workers    *)
(***************************************************************************)
EXTENDS Integers, Sequences, FiniteSets, TLC

(***************************************************************************)
(* Bounds of the model and constants of the program.                       *)
(***************************************************************************)
\* number of times the remote catalogue payload changes
MaxVersions == 2
\* max_tries of the backoff decorator of _worldpop_ftp_download
FtpMaxTries == 3
\* largest number of rows of a catalogue
MaxRows == 3
\* number of catalogue reads a process makes
MaxReads == 2
\* get_max_concurrency(): WORLDPOPPY_MAX_CONCURRENCY
MaxConcurrency == 2
\* max_tries of the backoff decorator of _download_file
DownloadMaxTries == 5
\* first year of any annual dataset
FIRST_YEAR == 2000
\* datetime.now().year
CurrentYear == 2026

VARIABLES
    \* ---- catalogue assets on disk (ASSET_DIR) and the remote channel
    manifestFile,     \* manifest.feather: <<>> if absent, else <<v>>, v the payload it was parsed from
    hashFile,         \* raw_manifest_hash.txt: <<>> if absent, else the stored hash
    lastCheck,        \* last_manifest_check.txt: "absent", "stale" (touched by an earlier call), "fresh"
    remoteCsv,        \* version of /assets/wpgpDatasets.csv currently on the server
    \* ---- the running build_wp_manifest call
    syncPc,           \* "idle", "hashfetch", "download", "gotcsv", "hashed", "parsed", "storing"
    overwrite,        \* the call's argument
    localHash,        \* local_hash read at line 256
    ftpTries,         \* attempts made by the backoff wrapper in the current FTP download
    tmpCsv,           \* payload in the NamedTemporaryFile: <<>> or <<v>>
    syncOutcome,      \* "none", "uptodate", "unreachable", "refreshed", "raised", "crashed"
    syncError,        \* the exception type raised to the caller, "none" if none
    \* ---- what the call saw, recorded to state the claims
    manifestAtCall,   \* manifestFile when the call started
    hashAtCall,       \* hashFile when the call started
    remoteHashSeen,   \* remote hash the call fetched, <<>> if none
    hashFetchError,   \* exception type with which the hash fetch ended, "none" if none
    refreshStarted,   \* TRUE once the call has reached the payload download
    \* ---- the process that uses the catalogue
    manifestPartial,  \* TRUE while manifest.feather holds a file whose write has not ended
    loadCache,        \* lru_cache of _cached_manifest_load: <<>> if empty, else the snapshot <<v>>
    viewCache,        \* lru_cache of a derived view (get_all_isos, ...): <<>> or <<v>>
    pending,          \* "none", or the call that waits for build_wp_manifest: "load", "view"
    reads,            \* wp_manifest() calls that have returned in this process
    loadChecks,       \* of these, the calls that ran build_wp_manifest before reading
    readResult,       \* snapshot the last wp_manifest() call since the last refresh returned
    viewResult,       \* snapshot the last derived-view call since the last refresh was computed from
    \* ---- query resolution
    mdf,              \* the loaded catalogue (_cached_manifest_load): a set of rows
    qProduct,         \* arguments of the last wp_manifest_constrained call
    qIsos,
    qYears,
    qResult,          \* what that call returned or raised
    qProductGiven,    \* FALSE if the wp_manifest call is made with product_name=None
    qIsosGiven,       \* FALSE if the wp_manifest call is made with iso3_codes=None
    mResult,          \* what the wp_manifest call returned or raised
    qAgain,           \* what a second wp_manifest_constrained call with the same arguments gave
    \* ---- the integrity checks of the load
    storedRows,       \* the rows of manifest.feather as read by pd.read_feather, a sequence
    loadOutcome,      \* "none", "ok", or "ValueError"
    loadWhy,          \* the check that raised: "duplicates", "formats", or "none"
    loadReturned,     \* <<>>, or <<rows>>, the snapshot the load returned
    loadCached,       \* <<>>, or <<rows>>, the snapshot the lru_cache keeps
    \* ---- the download directory
    final,            \* content under each final local name
    tmp,              \* content under each sibling '.download' name
    \* ---- the running download call
    dlPc,             \* "idle" or "running"
    dryRun,           \* arguments of the call
    skipIfExists,
    request,          \* the files of the request (local paths), a set
    wpc,              \* position of each per-file operation
    tries,            \* attempts the backoff wrapper has made of each operation
    res,              \* the DownloadResult (or the exception) each operation ended with
    callResult,       \* "none", "returned", or the type of the error the call raised
    aggErrors,        \* the entries of the aggregate error, in request order
    totalFiles,       \* the dry run's report
    totalSize,
    \* ---- what the call saw, recorded to state the claims
    finalAtStart,     \* final when the call started
    repairDeleted,    \* TRUE if the repair step of the call deleted a temp file
    headReq,          \* files for which the call has issued a HEAD request
    getReq,           \* files for which the call has issued a GET request
    stage,            \* progress of the cold/warm sequence of test_e2e_dry_run_respects_cache
    stageReq,         \* the request of that sequence
    dirIsCache,       \* TRUE if the downloader writes to get_cache_dir() (directory=None)
    unlinkFailed,     \* temp files whose unlink raised in the repair step of the call
    completed,        \* the files of the batch in the order their operations ended
    returned          \* the list the call returned; <<>> if it has returned none

VARIABLES
    \* ---- the worker pool of one pqdm call
    poolPc,           \* "idle", or "running" while a pqdm call has not returned
    poolDry,          \* dry_run of the call that made the pool
    poolConfigured,   \* what get_max_concurrency() returned to that call
    poolTasks         \* per-file operation i of the batch: "none", "queued", "running", "done"

VARIABLES
    \* ---- one call of _worldpop_ftp_download, as the backoff wrapper runs it
    ftpPc,            \* "idle", "connect" (in the FTP constructor), "transfer" (in retrbinary)
    ftpAttempts,      \* attempts of the wrapped function made so far
    ftpTransfers,     \* calls of retrbinary made so far
    ftpErrors,        \* the errors the attempts ended with, in order: [stage, error]
    ftpResult         \* "none", "ok" (the call returned), or the error the call raised

VARIABLES
    \* ---- the cache directory as purge_cache finds it, and one purge_cache call
    cacheDir,         \* content under each path: "absent", "file", "locked" (a file whose
                      \* unlink raises), "dir"
    purgePc,          \* "idle", or "loop" while the call walks over fpaths
    purgeDry,         \* arguments of the call
    purgeKeep,
    fpaths,           \* the paths of the glob the loop has not reached yet
    num_matched,      \* the counters of the call
    num_deleted,
    total_size,
    purgeLogged,      \* paths whose unlink raised and was reported by print
    cacheAtPurge,     \* cacheDir when the call started
    purgeSummary      \* <<>>, or <<dict>>, the summary the call returned

VARIABLES
    \* ---- a batch of transfers in a cache directory that other download calls repair
    coPc,             \* position of each transfer: "none", "queued", "open", "streamed", "done"
    coTmp,            \* content under each '.download' name: "absent", "partial", "complete"
    coFinal,          \* content under each final name: "absent", "complete"
    coRes,            \* how each transfer ended: "none", "success", "failure" (a
                      \* DownloadResult), or the exception it raised
    coFull,           \* TRUE for a transfer that received its whole payload
    coDisrupted,      \* TRUE for a transfer whose temp file a repair step removed
    coOtherCalls      \* download calls other threads or processes have started

VARIABLES
    \* ---- one raw catalogue row, its name a string, and the columns derived from it
    rowRead,          \* TRUE once the columns have been derived
    rowName,          \* dataset_name, a sequence of characters
    rowExtracted,     \* extract_year(dataset_name): <<year>>, or <<>> for ValueError
    rowAnnual,        \* column is_annual
    rowProduct,       \* column product_name
    rowYear,          \* column year: <<year>>, or <<>> for None
    rowRawNotes,      \* the notes of the row in the payload
    rowNotes          \* column notes of the stored snapshot

procVars == <<manifestPartial, loadCache, viewCache, pending, reads, loadChecks,
              readResult, viewResult>>

syncVars == <<manifestFile, hashFile, lastCheck, remoteCsv, syncPc, overwrite, localHash,
              ftpTries, tmpCsv, syncOutcome, syncError, manifestAtCall, hashAtCall,
              remoteHashSeen, hashFetchError, refreshStarted, procVars>>

loadVars == <<storedRows, loadOutcome, loadWhy, loadReturned, loadCached>>

resolveVars == <<mdf, qProduct, qIsos, qYears, qResult, qProductGiven, qIsosGiven, mResult,
                 qAgain,
                 loadVars>>

poolVars == <<poolPc, poolDry, poolConfigured, poolTasks>>

callVars == <<dirIsCache, unlinkFailed, completed, returned>>

ftpVars == <<ftpPc, ftpAttempts, ftpTransfers, ftpErrors, ftpResult>>

batchVars == <<final, tmp, dlPc, dryRun, skipIfExists, request, wpc, tries, res,
               callResult, aggErrors, totalFiles, totalSize, finalAtStart,
               headReq, getReq, stage, stageReq, repairDeleted, callVars>>

rowVars == <<rowRead, rowName, rowExtracted, rowAnnual, rowProduct, rowYear,
             rowRawNotes, rowNotes>>

concVars == <<coPc, coTmp, coFinal, coRes, coFull, coDisrupted, coOtherCalls>>

purgeVars == <<cacheDir, purgePc, purgeDry, purgeKeep, fpaths, num_matched, num_deleted,
               total_size, purgeLogged, cacheAtPurge, purgeSummary>>

\* what the actions of one part leave as it is
besidesBatch == <<poolVars, ftpVars, rowVars, purgeVars, concVars>>
besidesPool == <<batchVars, ftpVars, rowVars, purgeVars, concVars>>
besidesFtp == <<batchVars, poolVars, rowVars, purgeVars, concVars>>
besidesRow == <<batchVars, poolVars, ftpVars, purgeVars, concVars>>
besidesPurge == <<batchVars, poolVars, ftpVars, rowVars, concVars>>
besidesConc == <<batchVars, poolVars, ftpVars, rowVars, purgeVars>>

dlVars == <<batchVars, poolVars, ftpVars, rowVars, purgeVars, concVars>>

vars == <<syncVars, resolveVars, dlVars>>

(***************************************************************************)
(* Catalogue channel: hashes, the md5 side file, FTP errors.               *)
(***************************************************************************)
Versions == 0..MaxVersions

\* hashlib.md5 of a payload: distinct payloads have distinct digests
get_file_md5_hash(v) == <<"md5", v>>

\* /assets/wpgpDatasets.md5 on the server: "<digest>  wpgpDatasets.csv\n"
RemoteMd5File(v) == <<get_file_md5_hash(v), "", "wpgpDatasets.csv">>

\* result.strip().split(' ')[0]
FirstToken(tokens) == tokens[1]

\* the hash file holds the digest alone; f.read().strip() gives it back
read_local_manifest_hash == hashFile

\* exception types an FTP session can end with
\*   gaierror          name resolution failed (constructor)
\*   OSError           connection refused, timeout, reset
\*   error_temp        4xx reply, error_perm 5xx reply
\*   error_reply       unexpected reply, error_proto malformed reply
\*   EOFError          connection closed by the server
FtpRawErrors == {"gaierror", "OSError", "error_temp", "error_perm",
                 "error_reply", "error_proto", "EOFError"}

\* lines 712-723: gaierror becomes ConnectionError, any other type is kept
Reraised(e) == IF e = "gaierror" THEN "ConnectionError" ELSE e

\* subclasses of OSError among the modelled types
IsOSError(e) == e \in {"OSError", "ConnectionError", "gaierror"}

\* the backoff decorator retries on (OSError, ftplib.error_temp)
FtpRetryable(e) == IsOSError(e) \/ e = "error_temp"

CatchesEverything(e) == TRUE

\* except (ConnectionError, ftplib.error_reply, ftplib.error_proto, OSError)
NetworkErrorCaught(e) == IsOSError(e) \/ e \in {"error_reply", "error_proto"}

NoBackoff(e, made) == "raise"

\* outcome of one wrapped FTP attempt that raised e after `made` earlier attempts:
\* "retry" or "raise"
BackoffDecision(e, made) ==
    IF FtpRetryable(e) /\ made + 1 < FtpMaxTries THEN "retry" ELSE "raise"

NotTouched == lastCheck

\* Path.touch of the last-check marker
Touched == "fresh"

(***************************************************************************)
(* build_wp_manifest                                                       *)
(***************************************************************************)
NeedsHashCheck_IgnoresOverwrite(ow) == manifestFile # <<>> /\ hashFile # <<>>

\* lines 254-255: is the staleness check made?
NeedsHashCheck(ow) == manifestFile # <<>> /\ ~ow /\ hashFile # <<>>

\* build_wp_manifest is entered: guards of lines 254-255
EnterBuild(ow) ==
    /\ syncPc = "idle"
    /\ overwrite' = ow
    /\ manifestAtCall' = manifestFile
    /\ hashAtCall' = hashFile
    /\ remoteHashSeen' = <<>>
    /\ hashFetchError' = "none"
    /\ syncOutcome' = "none"
    /\ syncError' = "none"
    /\ tmpCsv' = <<>>
    /\ ftpTries' = 0
    /\ lastCheck' = IF lastCheck = "fresh" THEN "stale" ELSE lastCheck
    /\ IF NeedsHashCheck(ow)
         THEN /\ localHash' = read_local_manifest_hash
              /\ syncPc' = "hashfetch"
              /\ refreshStarted' = FALSE
         ELSE /\ localHash' = <<>>
              /\ syncPc' = "download"
              /\ refreshStarted' = TRUE
    /\ readResult' = <<>>
    /\ viewResult' = <<>>
    /\ UNCHANGED <<manifestFile, hashFile, remoteCsv, manifestPartial>>

\* the user calls build_wp_manifest(overwrite=ow)
build_wp_manifest(ow) ==
    /\ pending = "none"
    /\ EnterBuild(ow)
    /\ UNCHANGED <<loadCache, viewCache, pending, reads, loadChecks>>
    /\ UNCHANGED <<resolveVars, dlVars>>

CacheNeverHit == FALSE

\* @lru_cache() of _cached_manifest_load: a call is answered from the cache
CacheHit == loadCache # <<>>

\* the user calls wp_manifest() (no filter): line 96 calls _cached_manifest_load, which
\* returns the cached snapshot or, at line 479, enters build_wp_manifest()
call_wp_manifest ==
    /\ syncPc = "idle" /\ pending = "none"
    /\ reads < MaxReads
    /\ IF CacheHit
         THEN /\ readResult' = loadCache
              /\ reads' = reads + 1
              /\ UNCHANGED <<manifestFile, hashFile, lastCheck, remoteCsv, syncPc, overwrite,
                             localHash, ftpTries, tmpCsv, syncOutcome, syncError,
                             manifestAtCall, hashAtCall, remoteHashSeen, hashFetchError,
                             refreshStarted>>
              /\ UNCHANGED <<manifestPartial, loadCache, viewCache, pending, loadChecks,
                             viewResult>>
         ELSE /\ EnterBuild(FALSE)
              /\ pending' = "load"
              /\ UNCHANGED <<loadCache, viewCache, reads, loadChecks>>
    /\ UNCHANGED <<resolveVars, dlVars>>

\* the user calls a derived view (get_all_isos, get_static_product_names,
\* get_annual_product_names, get_all_annual_product_years, get_all_dataset_names):
\* answered from the view's own cache, or computed from wp_manifest()
call_get_all_isos ==
    /\ syncPc = "idle" /\ pending = "none"
    /\ reads < MaxReads
    /\ IF viewCache # <<>>
         THEN /\ viewResult' = viewCache
              /\ UNCHANGED <<manifestFile, hashFile, lastCheck, remoteCsv, syncPc, overwrite,
                             localHash, ftpTries, tmpCsv, syncOutcome, syncError,
                             manifestAtCall, hashAtCall, remoteHashSeen, hashFetchError,
                             refreshStarted>>
              /\ UNCHANGED <<manifestPartial, loadCache, viewCache, pending, reads,
                             loadChecks, readResult>>
         ELSE IF CacheHit
         THEN /\ viewCache' = loadCache
              /\ viewResult' = loadCache
              /\ reads' = reads + 1
              /\ UNCHANGED <<manifestFile, hashFile, lastCheck, remoteCsv, syncPc, overwrite,
                             localHash, ftpTries, tmpCsv, syncOutcome, syncError,
                             manifestAtCall, hashAtCall, remoteHashSeen, hashFetchError,
                             refreshStarted>>
              /\ UNCHANGED <<manifestPartial, loadCache, pending, loadChecks, readResult>>
         ELSE /\ EnterBuild(FALSE)
              /\ pending' = "view"
              /\ UNCHANGED <<loadCache, viewCache, reads, loadChecks>>
    /\ UNCHANGED <<resolveVars, dlVars>>

\* _cached_manifest_load, lines 479-494, once build_wp_manifest() has ended: an error of
\* the build propagates; else the stored file is read (a file whose write never ended
\* cannot be parsed), returned and cached.  The payloads of this specification pass
\* the integrity checks of lines 482-492.
LoadRead ==
    /\ syncPc = "idle" /\ pending # "none"
    /\ pending' = "none"
    /\ IF syncOutcome = "raised" \/ manifestPartial
         THEN UNCHANGED <<loadCache, viewCache, reads, loadChecks, readResult, viewResult>>
         ELSE /\ loadCache' = manifestFile
              /\ reads' = reads + 1
              /\ loadChecks' = loadChecks + 1
              /\ IF pending = "view"
                   THEN /\ viewCache' = manifestFile
                        /\ viewResult' = manifestFile
                        /\ UNCHANGED readResult
                   ELSE /\ readResult' = manifestFile
                        /\ UNCHANGED <<viewCache, viewResult>>
    /\ UNCHANGED <<manifestFile, hashFile, lastCheck, remoteCsv, syncPc, overwrite,
                   localHash, ftpTries, tmpCsv, syncOutcome, syncError, manifestAtCall,
                   hashAtCall, remoteHashSeen, hashFetchError, refreshStarted,
                   manifestPartial>>
    /\ UNCHANGED <<resolveVars, dlVars>>

\* one attempt of _worldpop_ftp_download('/assets/wpgpDatasets.md5') succeeds;
\* lines 261-264 compare the hashes
FetchHashOk ==
    /\ syncPc = "hashfetch"
    /\ LET remote_hash == FirstToken(RemoteMd5File(remoteCsv)) IN
       /\ remoteHashSeen' = remote_hash
       /\ ftpTries' = 0
       /\ IF remote_hash = localHash
            THEN /\ lastCheck' = Touched
                 /\ syncOutcome' = "uptodate"
                 /\ syncPc' = "idle"
                 /\ refreshStarted' = FALSE
            ELSE /\ syncPc' = "download"
                 /\ refreshStarted' = TRUE
                 /\ UNCHANGED <<lastCheck, syncOutcome>>
    /\ UNCHANGED <<manifestFile, hashFile, remoteCsv, overwrite, localHash, tmpCsv,
                   syncError, manifestAtCall, hashAtCall, hashFetchError>>
    /\ UNCHANGED <<procVars, resolveVars, dlVars>>

\* one attempt of the hash download fails with raw error r: retried by backoff,
\* or raised into the try block of lines 260-272
FetchHashFail(r) ==
    /\ syncPc = "hashfetch"
    /\ LET e == Reraised(r) IN
       IF BackoffDecision(e, ftpTries) = "retry"
         THEN /\ ftpTries' = ftpTries + 1
              /\ UNCHANGED <<syncPc, syncOutcome, syncError, hashFetchError>>
         ELSE /\ ftpTries' = 0
              /\ hashFetchError' = e
              /\ syncPc' = "idle"
              /\ IF NetworkErrorCaught(e)
                   THEN syncOutcome' = "unreachable" /\ syncError' = "none"
                   ELSE syncOutcome' = "raised" /\ syncError' = e
    /\ UNCHANGED <<manifestFile, hashFile, lastCheck, remoteCsv, overwrite, localHash,
                   tmpCsv, manifestAtCall, hashAtCall, remoteHashSeen, refreshStarted>>
    /\ UNCHANGED <<procVars, resolveVars, dlVars>>

\* line 279: one attempt of the payload download succeeds
DownloadCsvOk ==
    /\ syncPc = "download"
    /\ tmpCsv' = <<remoteCsv>>
    /\ ftpTries' = 0
    /\ syncPc' = "gotcsv"
    /\ UNCHANGED <<manifestFile, hashFile, lastCheck, remoteCsv, overwrite, localHash,
                   syncOutcome, syncError, manifestAtCall, hashAtCall, remoteHashSeen,
                   hashFetchError, refreshStarted>>
    /\ UNCHANGED <<procVars, resolveVars, dlVars>>

\* line 279: one attempt of the payload download fails; nothing catches the error
DownloadCsvFail(r) ==
    /\ syncPc = "download"
    /\ LET e == Reraised(r) IN
       IF BackoffDecision(e, ftpTries) = "retry"
         THEN /\ ftpTries' = ftpTries + 1
              /\ UNCHANGED <<syncPc, syncOutcome, syncError>>
         ELSE /\ ftpTries' = 0
              /\ syncPc' = "idle"
              /\ syncOutcome' = "raised"
              /\ syncError' = e
    /\ UNCHANGED <<manifestFile, hashFile, lastCheck, remoteCsv, overwrite, localHash,
                   tmpCsv, manifestAtCall, hashAtCall, remoteHashSeen, hashFetchError,
                   refreshStarted>>
    /\ UNCHANGED <<procVars, resolveVars, dlVars>>

\* line 280: _update_local_manifest_hash stores the digest of the payload
update_local_manifest_hash ==
    /\ syncPc = "gotcsv"
    /\ hashFile' = get_file_md5_hash(tmpCsv[1])
    /\ syncPc' = "hashed"
    /\ UNCHANGED <<manifestFile, lastCheck, remoteCsv, overwrite, localHash, ftpTries,
                   tmpCsv, syncOutcome, syncError, manifestAtCall, hashAtCall,
                   remoteHashSeen, hashFetchError, refreshStarted>>
    /\ UNCHANGED <<procVars, resolveVars, dlVars>>

\* lines 281-308: pd.read_csv and the cleaning either succeed or raise
ReadCsv(ok) ==
    /\ syncPc = "hashed"
    /\ IF ok
         THEN syncPc' = "parsed" /\ UNCHANGED <<syncOutcome, syncError>>
         ELSE syncPc' = "idle" /\ syncOutcome' = "raised" /\ syncError' = "ParserError"
    /\ UNCHANGED <<manifestFile, hashFile, lastCheck, remoteCsv, overwrite, localHash,
                   ftpTries, tmpCsv, manifestAtCall, hashAtCall, remoteHashSeen,
                   hashFetchError, refreshStarted>>
    /\ UNCHANGED <<procVars, resolveVars, dlVars>>

\* line 311: mdf.to_feather(_cleaned_manifest_fpath) opens the published path and
\* starts to write the new snapshot into it
to_feather ==
    /\ syncPc = "parsed"
    /\ manifestFile' = tmpCsv
    /\ manifestPartial' = TRUE
    /\ syncPc' = "storing"
    /\ UNCHANGED <<hashFile, lastCheck, remoteCsv, overwrite, localHash, ftpTries, tmpCsv,
                   syncOutcome, syncError, manifestAtCall, hashAtCall, remoteHashSeen,
                   hashFetchError, refreshStarted>>
    /\ UNCHANGED <<loadCache, viewCache, pending, reads, loadChecks, readResult, viewResult>>
    /\ UNCHANGED <<resolveVars, dlVars>>

\* lines 311-319: the write ends, touch, return mdf
StoreManifest ==
    /\ syncPc = "storing"
    /\ manifestPartial' = FALSE
    /\ lastCheck' = Touched
    /\ syncOutcome' = "refreshed"
    /\ syncPc' = "idle"
    /\ UNCHANGED <<manifestFile, hashFile, remoteCsv, overwrite, localHash, ftpTries, tmpCsv,
                   syncError, manifestAtCall, hashAtCall, remoteHashSeen, hashFetchError,
                   refreshStarted>>
    /\ UNCHANGED <<loadCache, viewCache, pending, reads, loadChecks, readResult, viewResult>>
    /\ UNCHANGED <<resolveVars, dlVars>>

\* the process ends (killed in the middle of a build_wp_manifest call, or at rest) and
\* a new one starts: the files stay as they are, the caches of the process are empty
ProcessEnds ==
    /\ syncPc' = "idle"
    /\ syncOutcome' = IF syncPc = "idle" /\ pending = "none" THEN syncOutcome ELSE "crashed"
    /\ tmpCsv' = IF syncPc = "idle" /\ pending = "none" THEN tmpCsv ELSE <<>>
    /\ ftpTries' = 0
    /\ pending' = "none"
    /\ loadCache' = <<>>
    /\ viewCache' = <<>>
    /\ reads' = 0
    /\ loadChecks' = 0
    /\ readResult' = <<>>
    /\ viewResult' = <<>>
    /\ UNCHANGED <<manifestFile, hashFile, lastCheck, remoteCsv, overwrite, localHash,
                   syncError, manifestAtCall, hashAtCall, remoteHashSeen, hashFetchError,
                   refreshStarted, manifestPartial>>
    /\ UNCHANGED <<resolveVars, dlVars>>

\* WorldPop publishes a new catalogue payload (and its md5)
RemoteUpdate ==
    /\ remoteCsv < MaxVersions
    /\ remoteCsv' = remoteCsv + 1
    /\ UNCHANGED <<manifestFile, hashFile, lastCheck, syncPc, overwrite, localHash,
                   ftpTries, tmpCsv, syncOutcome, syncError, manifestAtCall, hashAtCall,
                   remoteHashSeen, hashFetchError, refreshStarted>>
    /\ UNCHANGED <<procVars, resolveVars, dlVars>>

\* The asset directory as found when the process starts: empty (cold start), or a
\* shipped snapshot of payload 0 with or without its hash file.
InitSync ==
    /\ manifestFile \in {<<>>, <<0>>}
    /\ hashFile \in {<<>>, get_file_md5_hash(0)}
    /\ manifestFile = <<>> => hashFile = <<>>
    /\ lastCheck \in {"absent", "stale"}
    /\ remoteCsv = 0
    /\ syncPc = "idle"
    /\ overwrite = FALSE
    /\ localHash = <<>>
    /\ ftpTries = 0
    /\ tmpCsv = <<>>
    /\ syncOutcome = "none"
    /\ syncError = "none"
    /\ manifestAtCall = <<>>
    /\ hashAtCall = <<>>
    /\ remoteHashSeen = <<>>
    /\ hashFetchError = "none"
    /\ refreshStarted = FALSE
    /\ manifestPartial = FALSE
    /\ loadCache = <<>>
    /\ viewCache = <<>>
    /\ pending = "none"
    /\ reads = 0
    /\ loadChecks = 0
    /\ readResult = <<>>
    /\ viewResult = <<>>

IdleSync ==
    /\ manifestFile = <<>>
    /\ hashFile = <<>>
    /\ lastCheck = "absent"
    /\ remoteCsv = 0
    /\ syncPc = "idle"
    /\ overwrite = FALSE
    /\ localHash = <<>>
    /\ ftpTries = 0
    /\ tmpCsv = <<>>
    /\ syncOutcome = "none"
    /\ syncError = "none"
    /\ manifestAtCall = <<>>
    /\ hashAtCall = <<>>
    /\ remoteHashSeen = <<>>
    /\ hashFetchError = "none"
    /\ refreshStarted = FALSE
    /\ manifestPartial = FALSE
    /\ loadCache = <<>>
    /\ viewCache = <<>>
    /\ pending = "none"
    /\ reads = 0
    /\ loadChecks = 0
    /\ readResult = <<>>
    /\ viewResult = <<>>

NextSync ==
    \/ \E ow \in BOOLEAN : build_wp_manifest(ow)
    \/ FetchHashOk
    \/ \E r \in FtpRawErrors : FetchHashFail(r)
    \/ DownloadCsvOk
    \/ \E r \in FtpRawErrors : DownloadCsvFail(r)
    \/ update_local_manifest_hash
    \/ \E ok \in BOOLEAN : ReadCsv(ok)
    \/ to_feather
    \/ StoreManifest
    \/ RemoteUpdate
    \/ call_wp_manifest
    \/ call_get_all_isos
    \/ LoadRead
    \/ ProcessEnds


(***************************************************************************)
(* Catalogue rows and the year token of a dataset name.                    *)
(*                                                                         *)
(* A dataset name is a sequence of tokens: a word, or a token "_dddd" (an  *)
(* underscore followed by four digits), which is what _year_pattern finds. *)
(***************************************************************************)
W(s) == [t |-> "w", s |-> s, n |-> 0]
N(n) == [t |-> "n", s |-> "", n |-> n]

SeqToSet(s) == {s[i] : i \in 1..Len(s)}

IsYearToken(tok) == tok.t = "n"

\* _year_pattern.findall(dataset_name)
YearMatches(name) == SelectSeq(name, IsYearToken)

\* extract_year: <<year>>, or <<>> where the code raises ValueError
extract_year(name) ==
    LET matched == YearMatches(name) IN
    IF Len(matched) # 1 THEN <<>>
    ELSE IF matched[1].n < FIRST_YEAR \/ matched[1].n > CurrentYear THEN <<>>
    ELSE <<matched[1].n>>

looks_like_annual_name(name) == extract_year(name) # <<>>

\* dataset_name.replace(f'_{year}', ''), for a name that has a year
strip_year(name) ==
    LET year == extract_year(name)[1]
        Keep(tok) == ~(tok.t = "n" /\ tok.n = year)
    IN SelectSeq(name, Keep)

\* lines 295-305 of build_wp_manifest: the derived columns of one raw row
CleanRow(raw) ==
    LET annual == looks_like_annual_name(raw.dataset_name) IN
    [dataset_name |-> raw.dataset_name,
     iso3         |-> raw.iso3,
     is_annual    |-> annual,
     product_name |-> IF annual THEN strip_year(raw.dataset_name) ELSE raw.dataset_name,
     year         |-> IF annual THEN extract_year(raw.dataset_name) ELSE <<>>]

\* optional arguments: None, a list, or the 'all' keyword
None == [kind |-> "none", list |-> <<>>]
ListOf(s) == [kind |-> "list", list |-> s]
All == [kind |-> "all", list |-> <<>>]

\* results of the query functions: the rows returned, or the exception raised, with
\* the cause (`why`) and the values its message lists (`detail`)
Rows(rs) == [status |-> "ok", why |-> "", rows |-> rs, detail |-> {}]
RaiseWith(type, why, detail) == [status |-> type, why |-> why, rows |-> {}, detail |-> detail]
Raise(type, why) == RaiseWith(type, why, {})

get_all_isos(m) == {r.iso3 : r \in m}
get_static_product_names(m) == {r.product_name : r \in {x \in m : ~x.is_annual}}
get_annual_product_names(m) == {r.product_name : r \in {x \in m : x.is_annual}}
get_all_annual_product_years(m) == {r.year[1] : r \in {x \in m : x.is_annual}}

\* _is_annual_product: "static", "annual", or "ValueError"
is_annual_product(m, product_name) ==
    IF extract_year(product_name) # <<>> THEN "ValueError"
    ELSE IF product_name \in get_static_product_names(m) THEN "static"
    ELSE IF product_name \in get_annual_product_names(m) THEN "annual"
    ELSE "ValueError"

\* _validate_isos: the unknown codes
UnknownIsos(m, iso3_codes) == SeqToSet(iso3_codes) \ get_all_isos(m)

NoUnknownYears(m, years) == {}

\* _validate_years: the unknown years of a list
UnknownYears(m, years) == SeqToSet(years) \ get_all_annual_product_years(m)

FilterYearsOff(rs, yrs) == rs

\* lines 122-129: the filter on years
FilterYears(rs, yrs) ==
    IF yrs.kind = "none" THEN rs
    ELSE IF yrs.kind = "list"
         THEN {r \in rs : r.year # <<>> /\ r.year[1] \in SeqToSet(yrs.list)}
         ELSE {r \in rs : r.is_annual}

YearsKept(kind, years) == years

\* lines 110-115: the years argument of a call for a static product is set to None
EffectiveYears(kind, years) == IF kind = "static" THEN None ELSE years

\* wp_manifest, lines 95-131; product is None or ListOf(<<name>>)
wp_manifest(m, product, isos, years) ==
    IF product.kind = "none" /\ isos.kind = "none" /\ years.kind = "none" THEN Rows(m)
    ELSE
    LET kind == IF product.kind = "none" THEN "none"
                ELSE is_annual_product(m, product.list[1])
        yrs == EffectiveYears(kind, years)
        m1 == IF product.kind = "none" THEN m
              ELSE {r \in m : r.product_name = product.list[1]}
        m2 == IF isos.kind = "none" THEN m1
              ELSE {r \in m1 : r.iso3 \in SeqToSet(isos.list)}
        m3 == FilterYears(m2, yrs)
    IN
    IF kind = "ValueError" THEN Raise("ValueError", "product")
    ELSE IF isos.kind = "list" /\ UnknownIsos(m, isos.list) # {}
         THEN RaiseWith("ValueError", "isos", UnknownIsos(m, isos.list))
    ELSE IF yrs.kind = "list" /\ UnknownYears(m, yrs.list) # {}
         THEN RaiseWith("ValueError", "years", UnknownYears(m, yrs.list))
    ELSE Rows(m3)

\* filtered_mdf.year.unique()
UniqueYears(rs) == {r.year : r \in rs}

NoSurplusCheck(num_expected, rs) == TRUE

\* the sanity check of line 224
NoSurplusRows(num_expected, rs) == num_expected = Cardinality(rs)

YearsUsageIgnored(kind, years) == "ok"

\* lines 181-195: years is required for an annual product and must be None for a
\* static one
YearsUsage(kind, years) ==
    IF kind = "annual" /\ years.kind = "none" THEN "years required"
    ELSE IF kind = "static" /\ years.kind # "none" THEN "years given"
    ELSE "ok"

NoGroups(rs) == {}

\* line 207: filtered_mdf.groupby('iso3').year.unique().to_dict()
AvailableGroups(rs) ==
    {[iso3 |-> i, years |-> {r.year[1] : r \in {x \in rs : x.iso3 = i}}] :
        i \in {r.iso3 : r \in rs}}

\* line 217: set(iso3_codes) - set(filtered_mdf.iso3)
MissingIsos(iso3_codes, rs) == SeqToSet(iso3_codes) \ {r.iso3 : r \in rs}

\* wp_manifest_constrained, lines 171-225
wp_manifest_constrained(m, product_name, iso3_codes, years) ==
    LET filtered == wp_manifest(m, ListOf(<<product_name>>), ListOf(iso3_codes), years) IN
    IF filtered.status # "ok" THEN filtered
    ELSE
    LET kind == is_annual_product(m, product_name)
        rs == filtered.rows
        num_years == IF years.kind = "all" THEN Cardinality(UniqueYears(rs))
                     ELSE Len(years.list)
        num_expected == IF kind = "annual" THEN Len(iso3_codes) * num_years
                        ELSE Len(iso3_codes)
    IN
    IF YearsUsage(kind, years) # "ok" THEN Raise("ValueError", YearsUsage(kind, years))
    ELSE IF kind = "annual" /\ years.kind = "all"
            /\ Cardinality({r.product_name : r \in rs}) # 1
         \* line 202: assert filtered_mdf.product_name.nunique() == 1
         THEN Raise("AssertionError", "nunique")
    ELSE IF Cardinality(rs) < num_expected
         THEN IF kind = "annual"
              THEN RaiseWith("ValueError", "coverage", AvailableGroups(rs))
              ELSE RaiseWith("ValueError", "coverage", MissingIsos(iso3_codes, rs))
    ELSE IF ~NoSurplusRows(num_expected, rs) THEN Raise("AssertionError", "surplus")
    ELSE Rows(rs)

(***************************************************************************)
(* The integrity checks of _cached_manifest_load, lines 480-494.           *)
(*                                                                         *)
(* A stored row has a dataset name, a region code and a remote path; the   *)
(* path is the sequence of its segments between dots.                      *)
(***************************************************************************)
RemotePaths == { <<"GIS/ppp", "tif">>, <<"GIS/ppp", "zip">>, <<"GIS/ppp", "tif", "gz">> }

StoredRow == [dataset_name : {<<W("ppp"), N(2010)>>, <<W("srtm")>>},
              iso3 : {"LIE", "COD"},
              remote_path : RemotePaths]

\* what manifest.feather can hold: any sequence of rows, also an empty one
StoredSnapshots == UNION {[1..n -> StoredRow] : n \in 0..MaxRows}

NeverDuplicated(rows) == FALSE

\* line 482: mdf.duplicated(['dataset_name', 'iso3']).any()
Duplicated(rows) ==
    \E i, j \in 1..Len(rows) :
        /\ i < j
        /\ rows[i].dataset_name = rows[j].dataset_name
        /\ rows[i].iso3 = rows[j].iso3

\* line 488: [x[-1] for x in mdf.remote_path.str.split('.').values]
raster_formats(rows) == {rows[i].remote_path[Len(rows[i].remote_path)] : i \in 1..Len(rows)}

\* _cached_manifest_load is called: a cached snapshot is returned as it is; else the
\* stored file is read and checked, and returned and cached if it passes
cached_manifest_load ==
    /\ IF loadCached # <<>>
         THEN /\ loadOutcome' = "ok"
              /\ loadWhy' = "none"
              /\ loadReturned' = loadCached
              /\ UNCHANGED loadCached
         ELSE IF Duplicated(storedRows)
         THEN /\ loadOutcome' = "ValueError"
              /\ loadWhy' = "duplicates"
              /\ loadReturned' = <<>>
              /\ UNCHANGED loadCached
         ELSE IF raster_formats(storedRows) # {"tif"}
         THEN /\ loadOutcome' = "ValueError"
              /\ loadWhy' = "formats"
              /\ loadReturned' = <<>>
              /\ UNCHANGED loadCached
         ELSE /\ loadOutcome' = "ok"
              /\ loadWhy' = "none"
              /\ loadReturned' = <<storedRows>>
              /\ loadCached' = <<storedRows>>
    /\ UNCHANGED storedRows
    /\ UNCHANGED <<mdf, qProduct, qIsos, qYears, qResult, qProductGiven, qIsosGiven, mResult,
                   qAgain>>
    /\ UNCHANGED <<syncVars, dlVars>>

InitLoad ==
    /\ storedRows \in StoredSnapshots
    /\ loadOutcome = "none"
    /\ loadWhy = "none"
    /\ loadReturned = <<>>
    /\ loadCached = <<>>

IdleLoad ==
    /\ storedRows = <<>>
    /\ loadOutcome = "none"
    /\ loadWhy = "none"
    /\ loadReturned = <<>>
    /\ loadCached = <<>>

NextLoad == cached_manifest_load

(***************************************************************************)
(* Catalogues and queries the resolver is run on.                          *)
(***************************************************************************)
DatasetNames ==
    { <<W("ppp"), N(2010)>>,             \* ppp_2010
      <<W("ppp"), N(2011)>>,             \* ppp_2011
      <<W("srtm")>>,                     \* static
      <<W("ppp")>>,                      \* a static dataset named like the annual product
      <<W("ppp"), N(2010), W("c")>>,     \* ppp_2010_c
      <<W("ppp"), W("c"), N(2010)>> }    \* ppp_c_2010: same product and year as ppp_2010_c

IsoCodes == {"LIE", "COD"}

RawRows == [dataset_name : DatasetNames, iso3 : IsoCodes]

\* a loaded catalogue: not empty, no two rows with the same (dataset_name, iso3)
Catalogues ==
    {{CleanRow(raw) : raw \in c} :
        c \in {x \in SUBSET RawRows : Cardinality(x) \in 1..MaxRows}}

QueryProducts == { <<W("ppp")>>, <<W("ppp"), W("c")>>, <<W("srtm")>>,
                   <<W("nope")>>, <<W("ppp"), N(2010)>> }

QueryIsos == { <<>>, <<"LIE">>, <<"LIE", "COD">>, <<"LIE", "LIE">>, <<"XXX">>,
               <<"COD", "XXX">> }

QueryYears == { None, All, ListOf(<<2010>>), ListOf(<<2011>>), ListOf(<<2010, 2011>>),
                ListOf(<<2010, 2010>>), ListOf(<<2012>>) }

NoResult == [status |-> "none", why |-> "", rows |-> {}, detail |-> {}]

\* the optional arguments of the wp_manifest call
ProductArg == IF qProductGiven THEN ListOf(<<qProduct>>) ELSE None
IsosArg == IF qIsosGiven THEN ListOf(qIsos) ELSE None

\* wp_manifest is called with the drawn arguments on the loaded catalogue
Resolve ==
    /\ mResult = NoResult
    /\ mResult' = wp_manifest(mdf, ProductArg, IsosArg, qYears)
    /\ UNCHANGED <<mdf, qProduct, qIsos, qYears, qResult, qProductGiven, qIsosGiven, qAgain>>
    /\ UNCHANGED loadVars
    /\ UNCHANGED <<syncVars, dlVars>>

SnapshotNarrowed(m, filtered) == filtered.rows

\* The snapshot the lru_cache of _cached_manifest_load holds after a call: line 96
\* hands the cached frame to wp_manifest, which filters copies of it (lines 116, 120,
\* 125, 129) and sets the year column of a copy (line 126), so the cached frame stays
\* as it was.
SnapshotAfter(m, filtered) == m

\* wp_manifest_constrained is called with the drawn arguments on the loaded catalogue
ResolveComplete ==
    /\ qProductGiven /\ qIsosGiven
    /\ qResult = NoResult
    /\ qResult' = wp_manifest_constrained(mdf, qProduct, qIsos, qYears)
    /\ mdf' = SnapshotAfter(mdf, wp_manifest_constrained(mdf, qProduct, qIsos, qYears))
    /\ UNCHANGED <<qProduct, qIsos, qYears, qProductGiven, qIsosGiven, mResult, qAgain>>
    /\ UNCHANGED loadVars
    /\ UNCHANGED <<syncVars, dlVars>>

\* wp_manifest_constrained is called a second time with the same arguments, on the
\* snapshot the process then holds
ResolveCompleteAgain ==
    /\ qProductGiven /\ qIsosGiven
    /\ qResult # NoResult
    /\ qAgain = NoResult
    /\ qAgain' = wp_manifest_constrained(mdf, qProduct, qIsos, qYears)
    /\ mdf' = SnapshotAfter(mdf, wp_manifest_constrained(mdf, qProduct, qIsos, qYears))
    /\ UNCHANGED <<qProduct, qIsos, qYears, qResult, qProductGiven, qIsosGiven, mResult>>
    /\ UNCHANGED loadVars
    /\ UNCHANGED <<syncVars, dlVars>>

\* an argument that is not given is drawn as the empty value
InitResolve ==
    /\ mdf \in Catalogues
    /\ qProductGiven \in BOOLEAN
    /\ qIsosGiven \in BOOLEAN
    /\ qProduct \in (IF qProductGiven THEN QueryProducts ELSE {<<>>})
    /\ qIsos \in (IF qIsosGiven THEN QueryIsos ELSE {<<>>})
    /\ qYears \in QueryYears
    /\ qResult = NoResult
    /\ mResult = NoResult
    /\ qAgain = NoResult
    /\ IdleLoad

NextResolve ==
    \/ Resolve
    \/ ResolveComplete
    \/ ResolveCompleteAgain

(***************************************************************************)
(* The download engine: WorldPopDownloader.download and its workers.       *)
(*                                                                         *)
(* The downloads are resolved against a loaded catalogue of one annual     *)
(* product, ppp, for region LIE (the request of                            *)
(* test_e2e_dry_run_respects_cache).                                       *)
(*                                                                         *)
(* Content found under a name of the download directory:                   *)
(*   "absent"    no entry                                                  *)
(*   "dir"       an entry that is not a regular file                       *)
(*   "old"       a raster of an earlier session                            *)
(*   "complete"  the whole payload of a transfer                           *)
(*   "partial"   a file that is not the whole payload: still empty, a      *)
(*               prefix of the payload, or the body of an error reply      *)
(***************************************************************************)
DownloadYears == {2010, 2011}

DownloadManifest ==
    {CleanRow([dataset_name |-> <<W("ppp"), N(y)>>, iso3 |-> "LIE"]) : y \in DownloadYears}

\* _build_local_fpath: '{product_name}_{iso3}.tif' or '{product_name}_{iso3}_{year}.tif'
build_local_fpath(product_name, iso3, year) ==
    [product_name |-> product_name, iso3 |-> iso3, year |-> year]

LocalPath(r) == build_local_fpath(r.product_name, r.iso3, r.year)

Files == {LocalPath(r) : r \in DownloadManifest}

\* the years arguments the calls are made with: every ascending list of catalogue
\* years, a year the catalogue does not have, and None
RECURSIVE AscendingList(_)
AscendingList(S) ==
    IF S = {} THEN <<>>
    ELSE LET m == CHOOSE y \in S : \A z \in S : y <= z
         IN <<m>> \o AscendingList(S \ {m})

DownloadYearArgs ==
    {ListOf(AscendingList(S)) : S \in (SUBSET DownloadYears) \ {{}}}
        \cup {ListOf(<<2012>>), None}

\* the paths in ascending order of their names
RECURSIVE SortedPaths(_)
SortedPaths(S) ==
    IF S = {} THEN <<>>
    ELSE LET m == CHOOSE f \in S : \A g \in S : f.year[1] <= g.year[1]
         IN <<m>> \o SortedPaths(S \ {m})

\* the order of two paths: that of their names, '{product_name}_{iso3}_{year}.tif';
\* the files of the catalogue differ in the year only
PathBefore(f, g) == f.year[1] < g.year[1]

\* lines 167-168: the local paths of the request in the order of the catalogue rows,
\* which lists the newest year first
RECURSIVE local_paths(_)
local_paths(S) ==
    IF S = {} THEN <<>>
    ELSE LET m == CHOOSE f \in S : \A g \in S : ~PathBefore(f, g)
         IN <<m>> \o local_paths(S \ {m})

Unsorted(paths) == paths

\* sorted(local_paths), line 228
RECURSIVE sorted(_)
sorted(paths) ==
    IF paths = <<>> THEN <<>>
    ELSE LET rest == sorted(Tail(paths))
             before == SelectSeq(rest, LAMBDA g : ~PathBefore(Head(paths), g))
             after == SelectSeq(rest, LAMBDA g : PathBefore(Head(paths), g))
         IN before \o <<Head(paths)>> \o after

\* Path.is_file and Path.exists on the content found under a name
is_file(c) == c \notin {"absent", "dir"}
exists(c) == c # "absent"

\* DownloadResult(success, value, error); value is <<>> for None.  An operation that
\* raised leaves its exception in the result list of pqdm instead.
Success(v) == [kind |-> "result", success |-> TRUE, value |-> v, error |-> "none"]
Failure(e) == [kind |-> "result", success |-> FALSE, value |-> <<>>, error |-> e]
Raised(e) == [kind |-> "exception", success |-> FALSE, value |-> <<>>, error |-> e]
NoRes == [kind |-> "none", success |-> FALSE, value |-> <<>>, error |-> "none"]

\* the httpx errors of a request; all are subclasses of httpx.HTTPError
HttpxErrors == {"ConnectTimeout", "ReadError", "HTTPStatusError"}
IsHTTPError(e) == e \in HttpxErrors
\* transient transport failures: timeouts, broken streams
Transient(e) == e \in {"ConnectTimeout", "ReadError"}

\* @backoff.on_exception(backoff.expo, HTTPError, max_tries=5) around _download_file:
\* what the wrapper does when the wrapped call raised exc on attempt number n
DownloadBackoff(exc, n) ==
    IF IsHTTPError(exc) /\ n < DownloadMaxTries THEN "retry" ELSE "raise"

TransferNeverSkips(c, skip) == FALSE

\* line 260: the skip test of the transfer
TransferSkips(c, skip) == is_file(c) /\ skip

ProbeNeverSkips(c, skip) == FALSE

\* line 319: the skip test of the size probe
ProbeSkips(c, skip) == exists(c) /\ skip

RenamesAlways(exc) == TRUE

\* try / except / else of lines 271-289: the rename is in the else branch
RenamesAfter(exc) == exc = "none"

TransfersAnyway(dry) == FALSE

\* line 171, `if dry_run:` the batch is one of size probes, else one of transfers
SizeCheckOnly(dry) == dry

\* workers of the pool that hold a slot
InFlight == Cardinality({f \in request : wpc[f] \in {"open", "streamed", "head"}})

\* n_jobs of the two pqdm calls
TransferJobs == MaxConcurrency
ProbeJobs == MaxConcurrency * 4

RepairAborts(kept) ==
    IF kept = {} THEN [f \in Files |-> IF dirIsCache THEN "absent" ELSE tmp[f]] ELSE tmp

\* _repair_cache: unlink every '.download' file under get_cache_dir(); `kept` are the
\* files whose unlink raised.  The directory of a downloader made with a directory
\* of its own is not searched.
RepairedTmp(kept) ==
    [f \in Files |-> IF dirIsCache /\ f \notin kept THEN "absent" ELSE tmp[f]]

RequestedAnyway(filtered_mdf) == Files

\* lines 164-168: the local paths of the resolved rows; an error of the resolution
\* leaves the call before any path is built
RequestedPaths(filtered_mdf) ==
    IF filtered_mdf.status = "ok" THEN {LocalPath(r) : r \in filtered_mdf.rows} ELSE {}

\* download(), lines 160-189 and 204-218: repair, resolve, queue the per-file operations
download(years, skip, dry, kept) ==
    /\ dlPc = "idle"
    /\ kept \subseteq {f \in Files : dirIsCache /\ tmp[f] # "absent"}
    /\ tmp' = RepairedTmp(kept)
    /\ unlinkFailed' = kept
    /\ repairDeleted' = (\E f \in Files : tmp[f] # RepairedTmp(kept)[f])
    /\ completed' = <<>>
    /\ returned' = <<>>
    /\ finalAtStart' = final
    /\ dryRun' = dry
    /\ skipIfExists' = skip
    /\ res' = [f \in Files |-> NoRes]
    /\ tries' = [f \in Files |-> 0]
    /\ aggErrors' = <<>>
    /\ totalFiles' = 0
    /\ totalSize' = 0
    /\ headReq' = {}
    /\ getReq' = {}
    /\ LET filtered_mdf == wp_manifest_constrained(mdf, <<W("ppp")>>, <<"LIE">>, years) IN
       IF filtered_mdf.status = "ok"
         THEN /\ request' = RequestedPaths(filtered_mdf)
              /\ wpc' = [f \in Files |->
                           IF f \in RequestedPaths(filtered_mdf)
                           THEN "queued" ELSE "none"]
              /\ dlPc' = "running"
              /\ callResult' = "none"
              /\ UNCHANGED <<stage, stageReq>>
         ELSE /\ request' = RequestedPaths(filtered_mdf)
              /\ wpc' = [f \in Files |-> "none"]
              /\ dlPc' = "idle"
              /\ callResult' = filtered_mdf.status
              /\ stage' = 0
              /\ stageReq' = {}
    /\ UNCHANGED <<final, dirIsCache>>
    /\ UNCHANGED <<syncVars, resolveVars, besidesBatch>>

\* the end of the try block of _download_file for file f: exc is the exception the
\* block ended with ("none" if none), c the content then found under the temp name
EndOfTry(f, exc, c) ==
    IF RenamesAfter(exc)
      THEN IF final[f] = "dir"
             \* tmp_path.rename(local_path) raises IsADirectoryError out of the function
             THEN /\ tmp' = [tmp EXCEPT ![f] = c]
                  /\ UNCHANGED final
                  /\ IF DownloadBackoff("IsADirectoryError", tries[f]) = "retry"
                       THEN wpc' = [wpc EXCEPT ![f] = "queued"] /\ UNCHANGED res
                       ELSE /\ wpc' = [wpc EXCEPT ![f] = "done"]
                            /\ res' = [res EXCEPT ![f] = Raised("IsADirectoryError")]
             ELSE /\ final' = [final EXCEPT ![f] = c]
                  /\ tmp' = [tmp EXCEPT ![f] = "absent"]
                  /\ wpc' = [wpc EXCEPT ![f] = "done"]
                  /\ res' = [res EXCEPT ![f] = Success(<<>>)]
      ELSE \* except Exception as e: return DownloadResult(success=False, error=e)
           /\ tmp' = [tmp EXCEPT ![f] = c]
           /\ UNCHANGED final
           /\ wpc' = [wpc EXCEPT ![f] = "done"]
           /\ res' = [res EXCEPT ![f] = Failure(exc)]

\* _download_file, lines 260-273: a worker takes file f; skip, or open the temp file
\* (truncating it) and send the GET request
StartTransfer(f) ==
    /\ dlPc = "running" /\ ~SizeCheckOnly(dryRun)
    /\ f \in request /\ wpc[f] = "queued"
    /\ InFlight < TransferJobs
    /\ tries' = [tries EXCEPT ![f] = @ + 1]
    /\ IF TransferSkips(final[f], skipIfExists)
         THEN /\ wpc' = [wpc EXCEPT ![f] = "done"]
              /\ res' = [res EXCEPT ![f] = Success(<<>>)]
              /\ UNCHANGED <<tmp, getReq>>
         ELSE /\ tmp' = [tmp EXCEPT ![f] = "partial"]
              /\ getReq' = getReq \cup {f}
              /\ wpc' = [wpc EXCEPT ![f] = "open"]
              /\ UNCHANGED res
    /\ UNCHANGED <<final, dlPc, dryRun, skipIfExists, request, callResult,
                   aggErrors, totalFiles, totalSize, finalAtStart, headReq,
                   stage, stageReq, repairDeleted>>
    /\ completed' = IF wpc'[f] = "done" THEN Append(completed, f) ELSE completed
    /\ UNCHANGED <<dirIsCache, unlinkFailed, returned>>
    /\ UNCHANGED <<syncVars, resolveVars, besidesBatch>>

\* how a GET request goes on: the payload is streamed to its end ("streamed"), or the
\* try block ends with an exception: the connection times out, the reply has no
\* Content-Length header, the stream breaks, or the reply is an error status (its
\* body is streamed into the temp file before raise_for_status raises)
GetOutcomes == {"streamed", "ConnectTimeout", "KeyError", "ReadError", "HTTPStatusError"}

\* lines 273-281
Respond(f, outcome) ==
    /\ dlPc = "running" /\ ~SizeCheckOnly(dryRun)
    /\ f \in request /\ wpc[f] = "open"
    /\ IF outcome = "streamed"
         THEN /\ wpc' = [wpc EXCEPT ![f] = "streamed"]
              /\ tmp' = [tmp EXCEPT ![f] = "complete"]
              /\ UNCHANGED <<final, res>>
         ELSE EndOfTry(f, outcome, "partial")
    /\ UNCHANGED <<dlPc, dryRun, skipIfExists, request, tries, callResult,
                   aggErrors, totalFiles, totalSize, finalAtStart, headReq,
                   getReq, stage, stageReq, repairDeleted>>
    /\ completed' = IF wpc'[f] = "done" THEN Append(completed, f) ELSE completed
    /\ UNCHANGED <<dirIsCache, unlinkFailed, returned>>
    /\ UNCHANGED <<syncVars, resolveVars, besidesBatch>>

\* lines 281-289: raise_for_status passes, the temp file is renamed
FinishTransfer(f) ==
    /\ dlPc = "running" /\ ~SizeCheckOnly(dryRun)
    /\ f \in request /\ wpc[f] = "streamed"
    /\ EndOfTry(f, "none", tmp[f])
    /\ UNCHANGED <<dlPc, dryRun, skipIfExists, request, tries, callResult,
                   aggErrors, totalFiles, totalSize, finalAtStart, headReq,
                   getReq, stage, stageReq, repairDeleted>>
    /\ completed' = IF wpc'[f] = "done" THEN Append(completed, f) ELSE completed
    /\ UNCHANGED <<dirIsCache, unlinkFailed, returned>>
    /\ UNCHANGED <<syncVars, resolveVars, besidesBatch>>

\* _get_required_file_download_size, lines 319-324: skip, or send the HEAD request
StartProbe(f) ==
    /\ dlPc = "running" /\ SizeCheckOnly(dryRun)
    /\ f \in request /\ wpc[f] = "queued"
    /\ InFlight < ProbeJobs
    /\ tries' = [tries EXCEPT ![f] = @ + 1]
    /\ IF ProbeSkips(final[f], skipIfExists)
         THEN /\ wpc' = [wpc EXCEPT ![f] = "done"]
              /\ res' = [res EXCEPT ![f] = Success(<<0>>)]
              /\ UNCHANGED headReq
         ELSE /\ wpc' = [wpc EXCEPT ![f] = "head"]
              /\ headReq' = headReq \cup {f}
              /\ UNCHANGED res
    /\ UNCHANGED <<final, tmp, dlPc, dryRun, skipIfExists, request, callResult,
                   aggErrors, totalFiles, totalSize, finalAtStart, getReq,
                   stage, stageReq, repairDeleted>>
    /\ completed' = IF wpc'[f] = "done" THEN Append(completed, f) ELSE completed
    /\ UNCHANGED <<dirIsCache, unlinkFailed, returned>>
    /\ UNCHANGED <<syncVars, resolveVars, besidesBatch>>

\* the replies to a HEAD request: Content-Length is <<n>>, or <<>> if the header is missing
HeadReplies ==
    {[status |-> "ok", length |-> l] : l \in {<<>>, <<2>>}}
        \cup {[status |-> e, length |-> <<>>] : e \in {"ConnectTimeout", "HTTPStatusError"}}

\* int(response.headers.get("Content-Length", 0))
ContentLength(reply) == IF reply.length = <<>> THEN 0 ELSE reply.length[1]

\* lines 324-330
EndProbe(f, reply) ==
    /\ dlPc = "running" /\ SizeCheckOnly(dryRun)
    /\ f \in request /\ wpc[f] = "head"
    /\ wpc' = [wpc EXCEPT ![f] = "done"]
    /\ res' = [res EXCEPT ![f] = IF reply.status = "ok"
                                   THEN Success(<<ContentLength(reply)>>)
                                   ELSE Failure(reply.status)]
    /\ UNCHANGED <<final, tmp, dlPc, dryRun, skipIfExists, request, tries,
                   callResult, aggErrors, totalFiles, totalSize, finalAtStart,
                   headReq, getReq, stage, stageReq, repairDeleted>>
    /\ completed' = IF wpc'[f] = "done" THEN Append(completed, f) ELSE completed
    /\ UNCHANGED <<dirIsCache, unlinkFailed, returned>>
    /\ UNCHANGED <<syncVars, resolveVars, besidesBatch>>

\* the text of an error as the aggregate message shows it ("- {e}"): the type, and the
\* files the text names.  The text of an HTTPStatusError holds the URL of its request;
\* the text of a transport error is that of the socket error, and the KeyError of a
\* missing Content-Length header holds the name of the header.
ErrorEntry(f, e) == [text |-> e, names |-> IF e = "HTTPStatusError" THEN {f} ELSE {}]

\* [r.error for r in res if not r.success], in request order
FailedFiles(order) ==
    LET failed(f) == ~res[f].success IN SelectSeq(order, failed)

\* lines 197-198: the results the dry run counts
CountsAsDownload(r) == r.success /\ r.value[1] > 0

RECURSIVE SumOfValues(_)
SumOfValues(S) ==
    IF S = {} THEN 0
    ELSE LET f == CHOOSE x \in S : TRUE IN res[f].value[1] + SumOfValues(S \ {f})

\* the outcome of the joined batch, lines 191-228: "returned", or the error raised.
\* An exception in the result list has no attribute `success`.
BatchOutcome ==
    IF \E f \in request : res[f].kind = "exception" THEN "AttributeError"
    ELSE IF \E f \in request : ~res[f].success
         THEN IF dryRun THEN "DownloadSizeCheckError" ELSE "DownloadError"
    ELSE "returned"

\* the cold / warm sequence of test_e2e_dry_run_respects_cache: 1 after a dry run on a
\* cold cache whose probes all reported a size above zero, 2 after a returned real run
\* of the same request that follows it, 3 after a dry run that follows that
NextStage(outcome) ==
    IF /\ dryRun /\ skipIfExists /\ outcome = "returned"
       /\ \A f \in request : finalAtStart[f] = "absent" /\ res[f].value[1] > 0
      THEN 1
    ELSE IF stage = 1 /\ ~dryRun /\ skipIfExists /\ request = stageReq /\ outcome = "returned"
      THEN 2
    ELSE IF stage = 2 /\ dryRun /\ skipIfExists /\ request = stageReq
      THEN 3
    ELSE 0

FailsFast == (\A f \in request : wpc[f] = "done")
                 \/ (\E f \in request : wpc[f] = "done" /\ ~res[f].success)

\* pqdm returns the result list when every operation has ended; an exception an
\* operation raised is put into the list, not raised (exception_behaviour 'ignore')
Joined == \A f \in request : wpc[f] = "done"

\* all per-file operations have ended: lines 191-201 and 220-228
Aggregate ==
    /\ dlPc = "running"
    /\ Joined
    /\ LET order == local_paths(request)
           failed == FailedFiles(order)
           outcome == BatchOutcome
           counted == {f \in request : CountsAsDownload(res[f])}
       IN
       /\ callResult' = outcome
       /\ returned' = IF outcome = "returned" THEN sorted(local_paths(request)) ELSE <<>>
       /\ aggErrors' = IF outcome \in {"DownloadSizeCheckError", "DownloadError"}
                       THEN [i \in 1..Len(failed) |-> ErrorEntry(failed[i], res[failed[i]].error)]
                       ELSE <<>>
       /\ totalSize' = IF dryRun /\ outcome = "returned" THEN SumOfValues(counted) ELSE 0
       /\ totalFiles' = IF dryRun /\ outcome = "returned" THEN Cardinality(counted) ELSE 0
       /\ stage' = NextStage(outcome)
       /\ stageReq' = IF NextStage(outcome) = 0 THEN {}
                      ELSE IF NextStage(outcome) = 1 THEN request ELSE stageReq
    /\ dlPc' = "idle"
    /\ UNCHANGED <<final, tmp, dryRun, skipIfExists, request, wpc, tries, res,
                   finalAtStart, headReq, getReq, repairDeleted>>
    /\ UNCHANGED <<dirIsCache, unlinkFailed, completed>>
    /\ UNCHANGED <<syncVars, resolveVars, besidesBatch>>

\* the process dies while a batch is running: the files stay as they are, what the
\* process held in memory is gone
Crash ==
    /\ dlPc = "running"
    /\ dlPc' = "idle"
    /\ callResult' = "crashed"
    /\ request' = {}
    /\ wpc' = [f \in Files |-> "none"]
    /\ tries' = [f \in Files |-> 0]
    /\ res' = [f \in Files |-> NoRes]
    /\ headReq' = {}
    /\ getReq' = {}
    /\ stage' = 0
    /\ stageReq' = {}
    /\ completed' = <<>>
    /\ returned' = <<>>
    /\ unlinkFailed' = {}
    /\ UNCHANGED <<final, tmp, dryRun, skipIfExists, aggErrors, totalFiles, totalSize,
                   finalAtStart, repairDeleted, dirIsCache>>
    /\ UNCHANGED <<syncVars, resolveVars, besidesBatch>>

(***************************************************************************)
(* The worker pool of a batch.  pqdm(args, fn, n_jobs=n) of pqdm.threads   *)
(* submits the per-file operations to a ThreadPoolExecutor of n workers,   *)
(* which takes them in the order of the list, and returns when all have    *)
(* ended.                                                                  *)
(***************************************************************************)
MaxTasks == 6

Tasks == 1..MaxTasks

\* get_max_concurrency(): int(os.getenv("WORLDPOPPY_MAX_CONCURRENCY", default)), the
\* default being max(1, cpu_count() - 2)
ConfiguredConcurrency == 1..MaxConcurrency

SameFanOut(dry, n) == n * 4

\* n_jobs of the two pqdm calls, lines 185 and 214
n_jobs(dry, n) == IF dry THEN n * 4 ELSE n

\* per-file operations that hold a worker of the pool
PoolInFlight == Cardinality({i \in Tasks : poolTasks[i] = "running"})

\* lines 182-189 and 211-218: the call reads the worker count and submits one
\* operation per row of the request (k rows; a resolved request has at least one)
pqdm(dry, n, k) ==
    /\ poolPc = "idle"
    /\ poolPc' = "running"
    /\ poolDry' = dry
    /\ poolConfigured' = n
    /\ poolTasks' = [i \in Tasks |-> IF i <= k THEN "queued" ELSE "none"]
    /\ UNCHANGED <<syncVars, resolveVars, besidesPool>>

\* a free worker takes the next operation of the list
WorkerTakes(i) ==
    /\ poolPc = "running"
    /\ poolTasks[i] = "queued"
    /\ \A j \in Tasks : j < i => poolTasks[j] # "queued"
    /\ PoolInFlight < n_jobs(poolDry, poolConfigured)
    /\ poolTasks' = [poolTasks EXCEPT ![i] = "running"]
    /\ UNCHANGED <<poolPc, poolDry, poolConfigured>>
    /\ UNCHANGED <<syncVars, resolveVars, besidesPool>>

\* the operation returns its DownloadResult and frees its worker
WorkerReturns(i) ==
    /\ poolPc = "running"
    /\ poolTasks[i] = "running"
    /\ poolTasks' = [poolTasks EXCEPT ![i] = "done"]
    /\ UNCHANGED <<poolPc, poolDry, poolConfigured>>
    /\ UNCHANGED <<syncVars, resolveVars, besidesPool>>

\* all operations have ended: pqdm returns the result list
PoolJoined ==
    /\ poolPc = "running"
    /\ \A i \in Tasks : poolTasks[i] \in {"none", "done"}
    /\ poolPc' = "idle"
    /\ UNCHANGED <<poolDry, poolConfigured, poolTasks>>
    /\ UNCHANGED <<syncVars, resolveVars, besidesPool>>

\* no pool has been made
NoBatch ==
    /\ poolPc = "idle"
    /\ poolDry = FALSE
    /\ poolConfigured = 1
    /\ poolTasks = [i \in Tasks |-> "none"]

NextPool ==
    \/ \E dry \in BOOLEAN, n \in ConfiguredConcurrency, k \in Tasks : pqdm(dry, n, k)
    \/ \E i \in Tasks : WorkerTakes(i)
    \/ \E i \in Tasks : WorkerReturns(i)
    \/ PoolJoined

(***************************************************************************)
(* _worldpop_ftp_download under its backoff decorator: attempts, errors,   *)
(* transfers.                                                              *)
(***************************************************************************)
\* errors retrbinary can end with (no name is resolved there)
FtpTransferErrors == FtpRawErrors \ {"gaierror"}

FtpError(where, e) == [stage |-> where, error |-> e]

\* the wrapper after an attempt that raised e: sleep and call again, or raise
AfterFtpError(where, e) ==
    /\ ftpErrors' = Append(ftpErrors, FtpError(where, e))
    /\ IF BackoffDecision(e, ftpAttempts - 1) = "retry"
         THEN /\ ftpPc' = "connect"
              /\ ftpAttempts' = ftpAttempts + 1
              /\ UNCHANGED ftpResult
         ELSE /\ ftpPc' = "idle"
              /\ ftpResult' = e
              /\ UNCHANGED ftpAttempts

\* the call is made: first attempt
worldpop_ftp_download ==
    /\ ftpPc = "idle"
    /\ ftpPc' = "connect"
    /\ ftpAttempts' = 1
    /\ ftpTransfers' = 0
    /\ ftpErrors' = <<>>
    /\ ftpResult' = "none"
    /\ UNCHANGED <<syncVars, resolveVars, besidesFtp>>

\* lines 712-713: ftplib.FTP(server, login, pwd, timeout) connects and logs in;
\* lines 725-734: retrbinary is called
FtpConnected ==
    /\ ftpPc = "connect"
    /\ ftpPc' = "transfer"
    /\ ftpTransfers' = ftpTransfers + 1
    /\ UNCHANGED <<ftpAttempts, ftpErrors, ftpResult>>
    /\ UNCHANGED <<syncVars, resolveVars, besidesFtp>>

\* lines 714-723: the constructor raises r
FtpConnectFails(r) ==
    /\ ftpPc = "connect"
    /\ AfterFtpError("connect", Reraised(r))
    /\ UNCHANGED ftpTransfers
    /\ UNCHANGED <<syncVars, resolveVars, besidesFtp>>

\* lines 725-734: the transfer ends, the call returns
FtpTransferred ==
    /\ ftpPc = "transfer"
    /\ ftpPc' = "idle"
    /\ ftpResult' = "ok"
    /\ UNCHANGED <<ftpAttempts, ftpTransfers, ftpErrors>>
    /\ UNCHANGED <<syncVars, resolveVars, besidesFtp>>

\* lines 725-734: retrbinary raises r
FtpTransferFails(r) ==
    /\ ftpPc = "transfer"
    /\ AfterFtpError("transfer", r)
    /\ UNCHANGED ftpTransfers
    /\ UNCHANGED <<syncVars, resolveVars, besidesFtp>>

\* no FTP call has been made
NoFtpCall ==
    /\ ftpPc = "idle"
    /\ ftpAttempts = 0
    /\ ftpTransfers = 0
    /\ ftpErrors = <<>>
    /\ ftpResult = "none"

NextFtp ==
    \/ worldpop_ftp_download
    \/ FtpConnected
    \/ \E r \in FtpRawErrors : FtpConnectFails(r)
    \/ FtpTransferred
    \/ \E r \in FtpTransferErrors : FtpTransferFails(r)

(***************************************************************************)
(* Dataset names as strings: the year pattern, extract_year, _strip_year   *)
(* and the derived columns, character by character.                        *)
(***************************************************************************)
MaxNameParts == 3

\* the pieces names are put together from: a word, a number as the names of age
\* groups have it ('agesex_f_20_2020'), bare digits, and year tokens at and around
\* the two ends of the supported range
NamePieces ==
    { <<"p", "p", "p">>,
      <<"_", "2", "0">>,
      <<"2", "0">>,
      <<"_", "2", "0", "2", "0">>,
      <<"_", "2", "0", "0", "0">>,
      <<"_", "1", "9", "9", "9">>,
      <<"_", "2", "0", "2", "6">>,
      <<"_", "2", "0", "2", "7">> }

\* the strings of at most n pieces
RECURSIVE NamesOf(_)
NamesOf(n) ==
    IF n = 0 THEN {<<>>}
    ELSE NamesOf(n - 1) \cup {head \o piece : head \in NamesOf(n - 1), piece \in NamePieces}

Names == NamesOf(MaxNameParts)

Digits == {"0", "1", "2", "3", "4", "5", "6", "7", "8", "9"}

DigitValue(c) ==
    CASE c = "0" -> 0 [] c = "1" -> 1 [] c = "2" -> 2 [] c = "3" -> 3 [] c = "4" -> 4
      [] c = "5" -> 5 [] c = "6" -> 6 [] c = "7" -> 7 [] c = "8" -> 8 [] c = "9" -> 9

DigitChar(d) ==
    CASE d = 0 -> "0" [] d = 1 -> "1" [] d = 2 -> "2" [] d = 3 -> "3" [] d = 4 -> "4"
      [] d = 5 -> "5" [] d = 6 -> "6" [] d = 7 -> "7" [] d = 8 -> "8" [] d = 9 -> "9"

\* int(text) of a digit string
RECURSIVE int(_)
int(text) ==
    IF text = <<>> THEN 0
    ELSE 10 * int(SubSeq(text, 1, Len(text) - 1)) + DigitValue(text[Len(text)])

\* str(n) of a number of four digits
str(n) ==
    <<DigitChar(n \div 1000), DigitChar((n \div 100) % 10),
      DigitChar((n \div 10) % 10), DigitChar(n % 10)>>

\* _year_pattern = re.compile(r'_\d{4}') matches at position i of the name
PatternAt(name, i) ==
    /\ i + 4 <= Len(name)
    /\ name[i] = "_"
    /\ \A j \in 1..4 : name[i + j] \in Digits

\* _year_pattern.findall(name): the matches from left to right, none overlapping
RECURSIVE findall(_, _)
findall(name, i) ==
    IF i > Len(name) THEN <<>>
    ELSE IF PatternAt(name, i) THEN <<SubSeq(name, i, i + 4)>> \o findall(name, i + 5)
    ELSE findall(name, i + 1)

AnyYear(year) == TRUE

\* line 425: the plausibility check of the year
PlausibleYear(year) == ~(year < FIRST_YEAR \/ year > CurrentYear)

\* extract_year on a string: <<year>>, or <<>> where it raises ValueError
extract_year_str(name) ==
    LET matched == findall(name, 1) IN
    IF Len(matched) # 1 THEN <<>>
    ELSE LET year == int(Tail(matched[1])) IN
         IF PlausibleYear(year) THEN <<year>> ELSE <<>>

\* _looks_like_annual_name on a string
looks_like_annual_name_str(name) == extract_year_str(name) # <<>>

\* text.replace(old, ''): every occurrence of old, from left to right, is left out
RECURSIVE replace(_, _, _)
replace(text, old, i) ==
    IF i > Len(text) THEN <<>>
    ELSE IF i + Len(old) - 1 <= Len(text) /\ SubSeq(text, i, i + Len(old) - 1) = old
           THEN replace(text, old, i + Len(old))
    ELSE <<text[i]>> \o replace(text, old, i + 1)

\* _strip_year on a string that has a year: dataset_name.replace(f'_{year}', '')
strip_year_str(name) ==
    LET year == extract_year_str(name)[1] IN replace(name, <<"_">> \o str(year), 1)

\* the notes of the payload: 'in 2020', 'in 1999', and a text without a number
Notes ==
    { <<"i", "n", " ", "2", "0", "2", "0">>,
      <<"i", "n", " ", "1", "9", "9", "9">>,
      <<"p", "e", "o", "p", "l", "e">> }

\* lines 284-292 and 311: the seventh column of the payload is named 'notes'; no
\* statement of build_wp_manifest writes to it before the snapshot is stored
NotesColumn(notes) == notes

\* lines 284-305 of build_wp_manifest for one row of the raw catalogue
CleanEntry ==
    /\ ~rowRead
    /\ rowRead' = TRUE
    /\ \E notes \in Notes :
          /\ rowRawNotes' = notes
          /\ rowNotes' = NotesColumn(notes)
    /\ \E name \in Names :
          /\ rowName' = name
          /\ rowExtracted' = extract_year_str(name)
          /\ LET annual == looks_like_annual_name_str(name) IN
             /\ rowAnnual' = annual
             /\ rowProduct' = IF annual THEN strip_year_str(name) ELSE name
             /\ rowYear' = IF annual THEN extract_year_str(name) ELSE <<>>
    /\ UNCHANGED <<syncVars, resolveVars, besidesRow>>

\* no row has been read
NoRow ==
    /\ rowRead = FALSE
    /\ rowName = <<>>
    /\ rowExtracted = <<>>
    /\ rowAnnual = FALSE
    /\ rowProduct = <<>>
    /\ rowYear = <<>>
    /\ rowRawNotes = <<>>
    /\ rowNotes = <<>>

NextRow == CleanEntry

(***************************************************************************)
(* purge_cache: the walk over the cache directory.                         *)
(*                                                                         *)
(* A path is the sequence of its components below the cache directory, a   *)
(* component a sequence of characters.                                     *)
(***************************************************************************)
Level0 == <<"l", "e", "v", "e", "l", "0">>

\* the paths the cache directory can hold, in the order the glob lists them (a
\* directory before what it holds): a raster, a borders file, a file named
\* 'level_0', a directory named 'level0', and a raster in that directory
PurgePaths ==
    << <<(<<"p", "p", "p">>)>>,
       <<Level0 \o <<"_", "a">> >>,
       <<(<<"l", "e", "v", "e", "l", "_", "0">>)>>,
       <<Level0>>,
       <<Level0, <<"p", "p", "p">> >> >>

PurgePathSet == SeqToSet(PurgePaths)

\* the directory of the model
IsDirectoryPath(path) == path = <<Level0>>

\* Path.name: the last component
PathName(path) == path[Len(path)]

\* sub in text
Contains(text, sub) ==
    \E i \in 1..(Len(text) - Len(sub) + 1) : SubSeq(text, i, i + Len(sub) - 1) = sub

\* list(cache_dir.glob('**/*')): every entry below the cache directory, directories
\* too
GlobAll(dir) == SelectSeq(PurgePaths, LAMBDA path : dir[path] # "absent")

\* path.stat().st_size
StSize(content) == IF content = "dir" THEN 4 ELSE 1

NothingProtected(keep, path) == FALSE

\* line 367: keep_country_borders and 'level0' in path.name
Protected(keep, path) == keep /\ Contains(PathName(path), Level0)

\* purge_cache(dry_run, keep_country_borders), lines 362-365
purge_cache(dry, keep) ==
    /\ purgePc = "idle"
    /\ purgePc' = "loop"
    /\ purgeDry' = dry
    /\ purgeKeep' = keep
    /\ fpaths' = GlobAll(cacheDir)
    /\ num_matched' = 0
    /\ num_deleted' = 0
    /\ total_size' = 0
    /\ purgeLogged' = {}
    /\ cacheAtPurge' = cacheDir
    /\ purgeSummary' = <<>>
    /\ UNCHANGED cacheDir
    /\ UNCHANGED <<syncVars, resolveVars, besidesPurge>>

\* one pass of the loop, lines 366-378
PurgePath ==
    /\ purgePc = "loop"
    /\ fpaths # <<>>
    /\ fpaths' = Tail(fpaths)
    /\ LET path == Head(fpaths) IN
       IF Protected(purgeKeep, path)
         THEN UNCHANGED <<num_matched, total_size, num_deleted, cacheDir, purgeLogged>>
         ELSE /\ num_matched' = num_matched + 1
              /\ total_size' = total_size + StSize(cacheDir[path])
              /\ IF purgeDry
                   THEN UNCHANGED <<num_deleted, cacheDir, purgeLogged>>
                   ELSE IF cacheDir[path] = "file"
                          \* path.unlink() removes the file
                          THEN /\ cacheDir' = [cacheDir EXCEPT ![path] = "absent"]
                               /\ num_deleted' = num_deleted + 1
                               /\ UNCHANGED purgeLogged
                          \* path.unlink() raises: print, go on
                          ELSE /\ purgeLogged' = purgeLogged \cup {path}
                               /\ UNCHANGED <<num_deleted, cacheDir>>
    /\ UNCHANGED <<purgePc, purgeDry, purgeKeep, cacheAtPurge, purgeSummary>>
    /\ UNCHANGED <<syncVars, resolveVars, besidesPurge>>

\* lines 380-385: the summary; total_size_mb is total_size in bytes here
PurgeReturns ==
    /\ purgePc = "loop"
    /\ fpaths = <<>>
    /\ purgePc' = "idle"
    /\ purgeSummary' = << [dry_run |-> purgeDry,
                           matched_files |-> num_matched,
                           deleted_files |-> num_deleted,
                           total_size |-> total_size] >>
    /\ UNCHANGED <<cacheDir, purgeDry, purgeKeep, fpaths, num_matched, num_deleted,
                   total_size, purgeLogged, cacheAtPurge>>
    /\ UNCHANGED <<syncVars, resolveVars, besidesPurge>>

\* the contents a path can be found with: a directory, or a file that can or cannot
\* be unlinked; nothing in a directory that is not there
CacheDirs ==
    {d \in [PurgePathSet -> {"absent", "file", "locked", "dir"}] :
        /\ \A path \in PurgePathSet : (d[path] = "dir") => IsDirectoryPath(path)
        /\ \A path \in PurgePathSet : IsDirectoryPath(path) => d[path] \in {"absent", "dir"}
        /\ d[<<Level0>>] = "absent" => d[<<Level0, <<"p", "p", "p">> >>] = "absent"}

\* no purge_cache call has been made
NoPurgeCall ==
    /\ purgePc = "idle"
    /\ purgeDry = TRUE
    /\ purgeKeep = FALSE
    /\ fpaths = <<>>
    /\ num_matched = 0
    /\ num_deleted = 0
    /\ total_size = 0
    /\ purgeLogged = {}
    /\ cacheAtPurge = cacheDir
    /\ purgeSummary = <<>>

InitPurge ==
    /\ cacheDir \in CacheDirs
    /\ NoPurgeCall

NoPurge ==
    /\ cacheDir = [path \in PurgePathSet |-> "absent"]
    /\ NoPurgeCall

NextPurge ==
    \/ \E dry \in BOOLEAN, keep \in BOOLEAN : purge_cache(dry, keep)
    \/ PurgePath
    \/ PurgeReturns

(***************************************************************************)
(* Download calls that share the cache directory.  One call runs a batch   *)
(* of transfers; other threads or processes start download calls of their  *)
(* own, each of which begins with _repair_cache().                         *)
(***************************************************************************)
MaxOtherCalls == 2

\* a download call queues its transfers (its own repair step is done)
ConcurrentBatch ==
    /\ \A f \in Files : coPc[f] = "none"
    /\ coPc' = [f \in Files |-> "queued"]
    /\ UNCHANGED <<coTmp, coFinal, coRes, coFull, coDisrupted, coOtherCalls>>
    /\ UNCHANGED <<syncVars, resolveVars, besidesConc>>

\* lines 269-273: open(tmp_path, "wb+") makes the temp name, GET is sent
ConcurrentOpen(f) ==
    /\ coPc[f] = "queued"
    /\ coPc' = [coPc EXCEPT ![f] = "open"]
    /\ coTmp' = [coTmp EXCEPT ![f] = "partial"]
    /\ UNCHANGED <<coFinal, coRes, coFull, coDisrupted, coOtherCalls>>
    /\ UNCHANGED <<syncVars, resolveVars, besidesConc>>

\* lines 273-283: the payload is streamed to its end into the open file, or the try
\* block ends with exception exc.  A file whose name was unlinked is written to
\* all the same; it has no name any more.
ConcurrentStream(f, exc) ==
    /\ coPc[f] = "open"
    /\ IF exc = "none"
         THEN /\ coPc' = [coPc EXCEPT ![f] = "streamed"]
              /\ coTmp' = [coTmp EXCEPT ![f] = IF @ = "absent" THEN "absent" ELSE "complete"]
              /\ coFull' = [coFull EXCEPT ![f] = TRUE]
              /\ UNCHANGED coRes
         ELSE /\ coPc' = [coPc EXCEPT ![f] = "done"]
              /\ coRes' = [coRes EXCEPT ![f] = "failure"]
              /\ UNCHANGED <<coTmp, coFull>>
    /\ UNCHANGED <<coFinal, coDisrupted, coOtherCalls>>
    /\ UNCHANGED <<syncVars, resolveVars, besidesConc>>

\* lines 284-289: tmp_path.rename(local_path); without the temp name it raises
\* FileNotFoundError out of _download_file
ConcurrentRename(f) ==
    /\ coPc[f] = "streamed"
    /\ coPc' = [coPc EXCEPT ![f] = "done"]
    /\ IF coTmp[f] = "absent"
         THEN /\ coRes' = [coRes EXCEPT ![f] = "FileNotFoundError"]
              /\ UNCHANGED <<coTmp, coFinal>>
         ELSE /\ coFinal' = [coFinal EXCEPT ![f] = coTmp[f]]
              /\ coTmp' = [coTmp EXCEPT ![f] = "absent"]
              /\ coRes' = [coRes EXCEPT ![f] = "success"]
    /\ UNCHANGED <<coFull, coDisrupted, coOtherCalls>>
    /\ UNCHANGED <<syncVars, resolveVars, besidesConc>>

\* _repair_cache of another call: the '.download' files it leaves are those whose
\* unlink raised (kept).  Whether the unlink of a file that a transfer holds open
\* raises depends on the platform: it removes the name on POSIX and raises on Windows.
RepairKeeps(f, kept) == f \in kept

\* line 161 of a download call of another thread or process
OtherCallRepairs(kept) ==
    /\ coOtherCalls < MaxOtherCalls
    /\ \E f \in Files : coPc[f] # "none"
    /\ kept \subseteq {f \in Files : coTmp[f] # "absent"}
    /\ coOtherCalls' = coOtherCalls + 1
    /\ coTmp' = [f \in Files |-> IF RepairKeeps(f, kept) THEN coTmp[f] ELSE "absent"]
    /\ coDisrupted' = [f \in Files |->
                          \/ coDisrupted[f]
                          \/ /\ coPc[f] \in {"open", "streamed"}
                             /\ coTmp[f] # "absent"
                             /\ ~RepairKeeps(f, kept)]
    /\ UNCHANGED <<coPc, coFinal, coRes, coFull>>
    /\ UNCHANGED <<syncVars, resolveVars, besidesConc>>

\* no batch shares the directory
NoConcurrentCalls ==
    /\ coPc = [f \in Files |-> "none"]
    /\ coTmp = [f \in Files |-> "absent"]
    /\ coFinal = [f \in Files |-> "absent"]
    /\ coRes = [f \in Files |-> "none"]
    /\ coFull = [f \in Files |-> FALSE]
    /\ coDisrupted = [f \in Files |-> FALSE]
    /\ coOtherCalls = 0

NextConc ==
    \/ ConcurrentBatch
    \/ \E f \in Files : ConcurrentOpen(f)
    \/ \E f \in Files, exc \in {"none", "ReadError"} : ConcurrentStream(f, exc)
    \/ \E f \in Files : ConcurrentRename(f)
    \/ \E kept \in SUBSET Files : OtherCallRepairs(kept)

\* no download call has been made
NoCall ==
    /\ dlPc = "idle"
    /\ dryRun = FALSE
    /\ skipIfExists = TRUE
    /\ request = {}
    /\ wpc = [f \in Files |-> "none"]
    /\ tries = [f \in Files |-> 0]
    /\ res = [f \in Files |-> NoRes]
    /\ callResult = "none"
    /\ aggErrors = <<>>
    /\ totalFiles = 0
    /\ totalSize = 0
    /\ finalAtStart = final
    /\ headReq = {}
    /\ getReq = {}
    /\ stage = 0
    /\ stageReq = {}
    /\ repairDeleted = FALSE
    /\ unlinkFailed = {}
    /\ completed = <<>>
    /\ returned = <<>>
    /\ NoBatch
    /\ NoFtpCall
    /\ NoRow
    /\ NoConcurrentCalls

\* an empty download directory, no call made
EmptyDirectory ==
    /\ dirIsCache = TRUE
    /\ final = [f \in Files |-> "absent"]
    /\ tmp = [f \in Files |-> "absent"]
    /\ NoCall

\* The download directory as found.  The cache directory: each final name absent, an
\* earlier download, or a directory.  A directory of the downloader's own (the
\* temporary directory of raster.py): empty.  No temp file in either.
InitDownload ==
    /\ dirIsCache \in BOOLEAN
    /\ final \in IF dirIsCache THEN [Files -> {"absent", "old", "dir"}]
                 ELSE {[f \in Files |-> "absent"]}
    /\ tmp = [f \in Files |-> "absent"]
    /\ NoCall
    /\ NoPurge

IdleDownload ==
    /\ EmptyDirectory
    /\ NoPurge

NextDownload ==
    \/ \E years \in DownloadYearArgs, skip \in BOOLEAN, dry \in BOOLEAN, kept \in SUBSET Files :
          download(years, skip, dry, kept)
    \/ \E f \in Files : StartTransfer(f)
    \/ \E f \in Files, outcome \in GetOutcomes : Respond(f, outcome)
    \/ \E f \in Files : FinishTransfer(f)
    \/ \E f \in Files : StartProbe(f)
    \/ \E f \in Files, reply \in HeadReplies : EndProbe(f, reply)
    \/ Aggregate
    \/ Crash

IdleResolve ==
    /\ mdf = {}
    /\ qProduct = <<>>
    /\ qIsos = <<>>
    /\ qYears = None
    /\ qResult = NoResult
    /\ qProductGiven = TRUE
    /\ qIsosGiven = TRUE
    /\ mResult = NoResult
    /\ qAgain = NoResult
    /\ IdleLoad

\* the catalogue is loaded and stays as it is while downloads run
LoadedForDownload ==
    /\ mdf = DownloadManifest
    /\ qProduct = <<>>
    /\ qIsos = <<>>
    /\ qYears = None
    /\ qResult = NoResult
    /\ qProductGiven = TRUE
    /\ qIsosGiven = TRUE
    /\ mResult = NoResult
    /\ qAgain = NoResult
    /\ IdleLoad

\* a process that synchronises the catalogue
StartSync == InitSync /\ IdleResolve /\ IdleDownload

SpecSync == StartSync /\ [][NextSync]_vars

\* a process that resolves one query
StartResolve == InitResolve /\ IdleSync /\ IdleDownload

SpecResolve == StartResolve /\ [][NextResolve]_vars

\* no query is made
NoQuery ==
    /\ mdf = {}
    /\ qProduct = <<>>
    /\ qIsos = <<>>
    /\ qYears = None
    /\ qResult = NoResult
    /\ qProductGiven = TRUE
    /\ qIsosGiven = TRUE
    /\ mResult = NoResult
    /\ qAgain = NoResult

\* a process that loads a stored snapshot
StartLoad == InitLoad /\ NoQuery /\ IdleSync /\ IdleDownload

SpecLoad == StartLoad /\ [][NextLoad]_vars

\* a process that runs downloads
StartDownload == InitDownload /\ IdleSync /\ LoadedForDownload

SpecDownload == StartDownload /\ [][NextDownload]_vars

\* The steps of download calls in a process that is not killed: the pool runs every
\* queued operation as soon as a worker is free, every request sent gets its reply or
\* its error, and pqdm returns once the operations have ended.
NextBatch ==
    \/ \E years \in DownloadYearArgs, skip \in BOOLEAN, dry \in BOOLEAN, kept \in SUBSET Files :
          download(years, skip, dry, kept)
    \/ \E f \in Files : StartTransfer(f)
    \/ \E f \in Files, outcome \in GetOutcomes : Respond(f, outcome)
    \/ \E f \in Files : FinishTransfer(f)
    \/ \E f \in Files : StartProbe(f)
    \/ \E f \in Files, reply \in HeadReplies : EndProbe(f, reply)
    \/ Aggregate

BatchProgress ==
    /\ WF_vars(\E f \in Files : StartTransfer(f))
    /\ WF_vars(\E f \in Files, outcome \in GetOutcomes : Respond(f, outcome))
    /\ WF_vars(\E f \in Files : FinishTransfer(f))
    /\ WF_vars(\E f \in Files : StartProbe(f))
    /\ WF_vars(\E f \in Files, reply \in HeadReplies : EndProbe(f, reply))
    /\ WF_vars(Aggregate)

StartBatch == InitDownload /\ IdleSync /\ LoadedForDownload

SpecBatch == StartBatch /\ [][NextBatch]_vars /\ BatchProgress

\* a process that runs the worker pool of batches
StartPool == IdleSync /\ IdleResolve /\ IdleDownload

SpecPool == StartPool /\ [][NextPool]_vars

\* a process that calls _worldpop_ftp_download
StartFtp == IdleSync /\ IdleResolve /\ IdleDownload

SpecFtp == StartFtp /\ [][NextFtp]_vars

\* a process that derives the columns of one catalogue row
StartRow == IdleSync /\ IdleResolve /\ IdleDownload

SpecRow == StartRow /\ [][NextRow]_vars

\* processes that run download calls on one cache directory
StartConc == IdleSync /\ IdleResolve /\ IdleDownload

SpecConc == StartConc /\ [][NextConc]_vars

\* a process that purges the cache directory
StartPurge == IdleSync /\ IdleResolve /\ EmptyDirectory /\ InitPurge

SpecPurge == StartPurge /\ [][NextPurge]_vars

(***************************************************************************)
(* Claims on the catalogue synchronisation (SpecSync).                     *)
(***************************************************************************)
SyncCompleted == syncPc = "idle" /\ syncOutcome \notin {"none", "crashed"}

\* the refresh condition, from what the call found
RefreshCondition ==
    \/ manifestAtCall = <<>>
    \/ overwrite
    \/ hashAtCall = <<>>
    \/ (remoteHashSeen # <<>> /\ remoteHashSeen # hashAtCall)

\* C2: a build_wp_manifest call reaches the payload download exactly if no local
\* catalogue exists, or overwrite is set, or no local hash exists, or the fetched
\* remote hash differs from the local one; a call that returns has replaced the stored
\* hash and snapshot by those of the downloaded payload exactly in that case; with a
\* catalogue and a hash present, overwrite unset and equal hashes the call downloads
\* nothing, leaves hash and catalogue as they were and returns None.
C2_RefreshDecision ==
    /\ refreshStarted => RefreshCondition
    /\ SyncCompleted => (RefreshCondition <=> refreshStarted)
    /\ (SyncCompleted /\ syncOutcome # "raised") =>
          /\ RefreshCondition <=> syncOutcome = "refreshed"
          /\ syncOutcome = "refreshed" =>
                /\ tmpCsv # <<>>
                /\ manifestFile = tmpCsv
                /\ hashFile = get_file_md5_hash(tmpCsv[1])
          /\ syncOutcome # "refreshed" =>
                /\ tmpCsv = <<>>
                /\ manifestFile = manifestAtCall
                /\ hashFile = hashAtCall
    /\ (SyncCompleted /\ manifestAtCall # <<>> /\ hashAtCall # <<>> /\ ~overwrite
          /\ remoteHashSeen = hashAtCall) =>
          /\ syncOutcome = "uptodate"
          /\ tmpCsv = <<>>
          /\ manifestFile = manifestAtCall
          /\ hashFile = hashAtCall

\* a stale catalogue was found and replaced
C2_Witness ==
    /\ SyncCompleted
    /\ syncOutcome = "refreshed"
    /\ ~overwrite
    /\ remoteHashSeen # <<>>
    /\ remoteHashSeen # hashAtCall
    /\ manifestFile # manifestAtCall

\* the errors the degraded mode is claimed to cover: connection refusal (OSError),
\* DNS failure (ConnectionError), and a transient protocol error that outlives the retries
ClaimedNetworkErrors == {"OSError", "ConnectionError", "error_temp"}

\* C6: when a catalogue and a hash exist and fetching the remote hash fails with a
\* network-classified error, build_wp_manifest does not raise: it returns None and
\* leaves the stored catalogue and hash unchanged.
C6_DegradedMode ==
    (SyncCompleted /\ hashFetchError \in ClaimedNetworkErrors) =>
        /\ syncOutcome = "unreachable"
        /\ syncError = "none"
        /\ manifestFile = manifestAtCall
        /\ hashFile = hashAtCall

\* C7 as stated: every call that completes without raising has touched the last-check
\* marker, whether it refreshed, found equal hashes or found the network unreachable.
C7_TouchedOnEveryCompletion ==
    (SyncCompleted /\ syncOutcome \in {"refreshed", "uptodate", "unreachable"}) =>
        lastCheck = "fresh"

\* C7 amended: a call that refreshed or found equal hashes has touched the last-check
\* marker; a call that found the network unreachable has not.
C7_TouchedOnSuccessfulCheck ==
    /\ (SyncCompleted /\ syncOutcome \in {"refreshed", "uptodate"}) => lastCheck = "fresh"
    /\ (SyncCompleted /\ syncOutcome = "unreachable") => lastCheck # "fresh"

\* the staleness check found the network unreachable after an earlier call had touched
\* the marker
C7_Witness ==
    /\ SyncCompleted
    /\ syncOutcome = "unreachable"
    /\ lastCheck = "stale"

\* C11 as stated: every wp_manifest call that has returned ran build_wp_manifest before
\* it read the snapshot.
C11_EveryAccessChecks == loadChecks = reads

\* C11 amended: of the wp_manifest calls of a process, the first one that returns, and
\* only that one, ran build_wp_manifest before reading; build_wp_manifest is entered on
\* behalf of a catalogue access only while the process holds no cached snapshot, and
\* later calls are answered from the cache.
C11_FirstAccessChecks ==
    /\ loadChecks = (IF reads > 0 THEN 1 ELSE 0)
    /\ reads > 0 <=> loadCache # <<>>
    /\ pending # "none" => loadCache = <<>>

\* a second catalogue access of the process has returned without a staleness check
C11_Witness ==
    /\ reads = 2
    /\ loadChecks = 1
    /\ readResult = loadCache
    /\ readResult # <<>>

\* C12: once build_wp_manifest has replaced the stored catalogue, the wp_manifest calls
\* and the derived views of the same process give the refreshed snapshot: whatever a
\* call returned since the last build_wp_manifest call is the stored catalogue.
C12_ReadsSeeRefreshedSnapshot ==
    (syncPc = "idle" /\ pending = "none" /\ ~manifestPartial) =>
        /\ readResult # <<>> => readResult = manifestFile
        /\ viewResult # <<>> => viewResult = manifestFile

\* C13: the file at the published path of the catalogue is at every moment a complete
\* snapshot, the previous one or the new one, also during a refresh and after a crash.
C13_AtomicSave == ~manifestPartial

\* errors of the hash fetch that are not network errors: a permanent FTP error (5xx
\* reply), a connection closed by the server
UnexpectedFtpErrors == {"error_perm", "EOFError"}

\* C14: when the fetch of the remote hash ends with an error that is not a network
\* error, build_wp_manifest raises that error, downloads no payload, and leaves the
\* stored catalogue, the stored hash and the last-check marker as they were.
C14_UnexpectedErrorPropagates ==
    (SyncCompleted /\ hashFetchError \in UnexpectedFtpErrors) =>
        /\ syncOutcome = "raised"
        /\ syncError = hashFetchError
        /\ ~refreshStarted
        /\ tmpCsv = <<>>
        /\ manifestFile = manifestAtCall
        /\ hashFile = hashAtCall
        /\ lastCheck # Touched

\* the staleness check of a stored catalogue ended with a permanent FTP error
C14_Witness ==
    /\ SyncCompleted
    /\ hashFetchError = "error_perm"
    /\ syncError = "error_perm"
    /\ manifestAtCall # <<>>
    /\ hashAtCall # <<>>

(***************************************************************************)
(* Claims on the query resolution (SpecResolve).                           *)
(***************************************************************************)
\* the row count the request asks for: len(iso3_codes) * len(years), or len(iso3_codes)
ExpectedRows ==
    IF is_annual_product(mdf, qProduct) = "annual"
    THEN Len(qIsos) * (IF qYears.kind = "all"
                         THEN Cardinality(UniqueYears(qResult.rows))
                         ELSE Len(qYears.list))
    ELSE Len(qIsos)

\* C4: whenever wp_manifest_constrained returns, the number of returned rows is
\* |regionCodes| x |years| for an annual product and |regionCodes| for a static one.
C4_CoverageInvariant ==
    qResult.status = "ok" => Cardinality(qResult.rows) = ExpectedRows

\* an annual product resolved for two regions and one year
C4_Witness ==
    /\ qResult.status = "ok"
    /\ is_annual_product(mdf, qProduct) = "annual"
    /\ Len(qIsos) = 2
    /\ qYears.kind = "list"
    /\ Len(qYears.list) = 1
    /\ Cardinality(qResult.rows) = 2

\* the request read against the catalogue
ProductRows == {r \in mdf : r.product_name = qProduct}
NamesYear == extract_year(qProduct) # <<>>
StaticRequested == ~NamesYear /\ \E r \in ProductRows : ~r.is_annual
AnnualRequested == ~NamesYear /\ ~StaticRequested /\ \E r \in ProductRows : r.is_annual
CatalogueYears == {r.year[1] : r \in {x \in mdf : x.is_annual}}
CatalogueIsos == {r.iso3 : r \in mdf}
RequestedYears == IF qYears.kind = "list" THEN SeqToSet(qYears.list) ELSE CatalogueYears
YearsOfProductIn(i) == {r.year[1] : r \in {x \in ProductRows : x.iso3 = i /\ x.is_annual}}
CoverageError(result) == result.status = "ValueError" /\ result.why = "coverage"

\* C15 as stated: the coverage error of an annual product lists every requested region
\* with the years the catalogue has for that product and region; that of a static
\* product lists exactly the requested regions without an entry.
C15_CoverageErrorListsAllRegions ==
    CoverageError(qResult) =>
        IF AnnualRequested
        THEN qResult.detail =
                {[iso3 |-> i, years |-> YearsOfProductIn(i)] : i \in SeqToSet(qIsos)}
        ELSE qResult.detail =
                {i \in SeqToSet(qIsos) : ~\E r \in ProductRows : r.iso3 = i}

\* C15 amended: the coverage error of an annual product lists the requested regions
\* that have at least one of the requested years of the product, each with those of
\* the requested years it has; that of a static product lists exactly the requested
\* regions without an entry.
C15_CoverageErrorListsAvailableCombinations ==
    CoverageError(qResult) =>
        IF AnnualRequested
        THEN qResult.detail =
                {[iso3 |-> i, years |-> YearsOfProductIn(i) \cap RequestedYears] :
                    i \in {j \in SeqToSet(qIsos) :
                              YearsOfProductIn(j) \cap RequestedYears # {}}}
        ELSE qResult.detail =
                {i \in SeqToSet(qIsos) : ~\E r \in ProductRows : r.iso3 = i}

\* two regions requested for a year that only one of them has, while that one has
\* another year too
C15_Witness ==
    /\ CoverageError(qResult)
    /\ AnnualRequested
    /\ Len(qIsos) = 2
    /\ Cardinality(qResult.detail) = 1
    /\ \E g \in qResult.detail : YearsOfProductIn(g.iso3) # g.years

\* C16: wp_manifest_constrained raises ValueError and returns no rows whenever the
\* product is annual and years is absent, and whenever the product is static and
\* years is given; the error is not the coverage error, and with known region codes
\* it is the error on the years argument.
C16_YearsUsageError ==
    (qResult # NoResult /\ ((AnnualRequested /\ qYears.kind = "none")
                             \/ (StaticRequested /\ qYears.kind # "none"))) =>
        /\ qResult.status = "ValueError"
        /\ qResult.rows = {}
        /\ ~CoverageError(qResult)
        /\ SeqToSet(qIsos) \subseteq CatalogueIsos =>
              qResult.why = (IF AnnualRequested THEN "years required" ELSE "years given")

\* years given for a static product that every requested region has
C16_Witness ==
    /\ qResult.why = "years given"
    /\ StaticRequested
    /\ qYears.kind = "list"
    /\ Len(qIsos) > 0
    /\ \A i \in SeqToSet(qIsos) : \E r \in ProductRows : r.iso3 = i

\* the rows that pass the filters on product and regions
PassesProductAndIsos(r) ==
    /\ qProductGiven => r.product_name = qProduct
    /\ qIsosGiven => r.iso3 \in SeqToSet(qIsos)

\* the rows that pass the filter on years
PassesYears(r) ==
    IF qYears.kind = "list" THEN r.year # <<>> /\ r.year[1] \in SeqToSet(qYears.list)
    ELSE IF qYears.kind = "all" THEN r.is_annual
    ELSE TRUE

ProductUnknown == qProductGiven /\ ~StaticRequested /\ ~AnnualRequested
IsosUnknown == IF qIsosGiven THEN SeqToSet(qIsos) \ CatalogueIsos ELSE {}
YearsUnknown == IF qYears.kind = "list" THEN SeqToSet(qYears.list) \ CatalogueYears ELSE {}

BreaksIntegrity ==
    \/ \E i, j \in 1..Len(storedRows) :
          /\ i # j
          /\ storedRows[i].dataset_name = storedRows[j].dataset_name
          /\ storedRows[i].iso3 = storedRows[j].iso3
    \/ \E i \in 1..Len(storedRows) :
          LET path == storedRows[i].remote_path IN
          Len(path) < 2 \/ path[Len(path)] # "tif"

\* C20: the load of a snapshot that breaks an integrity rule raises ValueError, returns
\* nothing and caches nothing; a snapshot that the load returns or caches breaks no
\* rule and is the stored snapshot, row for row.
C20_IntegrityAtLoad ==
    /\ (loadOutcome # "none" /\ BreaksIntegrity) =>
          /\ loadOutcome = "ValueError"
          /\ loadReturned = <<>>
          /\ loadCached = <<>>
    /\ loadOutcome = "ok" =>
          /\ ~BreaksIntegrity
          /\ loadReturned = <<storedRows>>
          /\ loadCached = <<storedRows>>
    /\ loadCached # <<>> => (~BreaksIntegrity /\ loadCached = <<storedRows>>)

\* a snapshot of .tif rows with a duplicated entry was rejected
C20_Witness ==
    /\ loadOutcome = "ValueError"
    /\ loadWhy = "duplicates"
    /\ raster_formats(storedRows) = {"tif"}
    /\ loadCached = <<>>

(***************************************************************************)
(* Claims on the download engine (SpecDownload).                           *)
(***************************************************************************)
BatchDone == dlPc = "idle" /\ callResult \in {"returned", "DownloadError",
                                               "DownloadSizeCheckError", "AttributeError"}

\* C1: in every reachable state, also after a crash or a failed transfer, what is found
\* under a final name is what was there when the call began or the complete payload of
\* a transfer that succeeded; content that is not a whole payload is found under temp
\* names only; a final name changes only by a transfer that requested the payload,
\* streamed it to its end and ended without error.
C1_CacheIntegrity ==
    \A f \in Files :
        /\ final[f] # "partial"
        /\ final[f] \in {finalAtStart[f], "complete"}
        /\ (final[f] # finalAtStart[f] /\ callResult # "crashed") =>
              /\ f \in getReq
              /\ wpc[f] = "done"
              /\ res[f] = Success(<<>>)
              /\ tmp[f] = "absent"

\* a crash: one transfer had renamed its payload, the other left a partial temp file
C1_Witness ==
    /\ callResult = "crashed"
    /\ \E f \in Files : tmp[f] = "partial" /\ final[f] = finalAtStart[f]
    /\ \E g \in Files : final[g] = "complete" /\ finalAtStart[g] # "complete"

\* C3: when all per-file operations of a batch have ended and at least one failed, the
\* call raises the aggregate error (DownloadSizeCheckError for a dry run, DownloadError
\* for a real run) with one entry per failed file that holds the file's path and the
\* text of its error; the call returns only if no per-file operation failed.
C3_AggregateNamesEveryFailure ==
    BatchDone =>
        LET failed == {f \in request : ~res[f].success} IN
        /\ callResult = "returned" <=> failed = {}
        /\ failed # {} =>
              /\ callResult = (IF dryRun THEN "DownloadSizeCheckError" ELSE "DownloadError")
              /\ Len(aggErrors) = Cardinality(failed)
              /\ \A f \in failed :
                    \E i \in 1..Len(aggErrors) :
                        /\ aggErrors[i].names = {f}
                        /\ aggErrors[i].text = res[f].error

\* C5: a per-file operation (probe or transfer) that ended in failure with a transient
\* transport error was attempted as often as the attempt cap allows.
C5_TransientFailureRetried ==
    \A f \in request :
        (wpc[f] = "done" /\ ~res[f].success /\ Transient(res[f].error)) =>
            tries[f] = DownloadMaxTries

\* C8: for every file of a request whose final name holds a regular file when a call
\* with skip_if_exists begins, no HEAD and no GET request is sent, the file stays as it
\* is, and the operation ends as a success: of size 0 in a dry run, without a value in a
\* real run.
C8_SkipIfExists ==
    \A f \in request :
        (skipIfExists /\ is_file(finalAtStart[f])) =>
            /\ f \notin headReq
            /\ f \notin getReq
            /\ final[f] = finalAtStart[f]
            /\ wpc[f] = "done" =>
                  res[f] = (IF dryRun THEN Success(<<0>>) ELSE Success(<<>>))

\* a returned real run that skipped one file and transferred the other
C8_Witness ==
    /\ BatchDone /\ callResult = "returned"
    /\ ~dryRun /\ skipIfExists
    /\ \E f \in request : is_file(finalAtStart[f]) /\ res[f] = Success(<<>>) /\ f \notin getReq
    /\ \E g \in request : g \in getReq /\ final[g] = "complete"

\* C9: a dry run that returns reports as file count the number of requested files that
\* were not skipped as existing (those it probed), and as total size the sum of their
\* probed sizes, a missing Content-Length header counting as zero.
C9_DryRunReport ==
    (BatchDone /\ dryRun /\ callResult = "returned") =>
        /\ totalFiles = Cardinality(headReq)
        /\ totalSize = SumOfValues(headReq)

\* C10: for a request of N files with skip_if_exists: the dry run on the cold cache
\* reports N files and a size above zero and leaves every final name absent; after the
\* real run that follows and returns, every file of the request is a complete payload
\* under its final name; the dry run after that returns, sends no HEAD request and
\* reports 0 files and size 0.
C10_ColdWarmSequence ==
    dlPc = "idle" =>
        /\ stage = 1 =>
              /\ totalFiles = Cardinality(stageReq)
              /\ totalSize > 0
              /\ \A f \in stageReq : final[f] = "absent"
              /\ getReq = {}
        /\ stage = 2 =>
              \A f \in stageReq : final[f] = "complete" /\ f \in getReq
        /\ stage = 3 =>
              /\ callResult = "returned"
              /\ totalFiles = 0
              /\ totalSize = 0
              /\ headReq = {}
              /\ \A f \in stageReq : final[f] = "complete"

\* the third call of the sequence has returned, for a request of two files
C10_Witness ==
    /\ dlPc = "idle"
    /\ stage = 3
    /\ Cardinality(stageReq) = 2
    /\ callResult = "returned"

\* C17 as stated: a call that ends with a usage error has done no I/O before: the
\* repair step has deleted nothing.
C17_UsageErrorBeforeAnyIO ==
    callResult = "ValueError" => ~repairDeleted

\* C17 amended: a call that ends with a usage error has built no local path, queued no
\* per-file operation, sent no HEAD or GET request and changed no final name; the
\* repair step comes before the error.
C17_UsageErrorBeforeAnyTransfer ==
    callResult = "ValueError" =>
        /\ dlPc = "idle"
        /\ request = {}
        /\ \A f \in Files : wpc[f] = "none" /\ res[f] = NoRes
        /\ headReq = {}
        /\ getReq = {}
        /\ final = finalAtStart

\* a call without years for the annual product raised after the repair step had
\* deleted a temp file of an earlier transfer
C17_Witness ==
    /\ callResult = "ValueError"
    /\ repairDeleted
    /\ \E f \in Files : tmp[f] = "absent" /\ final[f] = "absent"

\* C22: a real run that returns gives back the local paths of all files of the request,
\* those skipped as existing included, each once and in ascending lexical order; the
\* list depends on the request only, not on the order in which the operations ended.
C22_SortedResult ==
    (BatchDone /\ ~dryRun /\ callResult = "returned") =>
        /\ Len(returned) = Cardinality(request)
        /\ SeqToSet(returned) = request
        /\ \A i, j \in 1..Len(returned) : i < j => PathBefore(returned[i], returned[j])
        /\ returned = SortedPaths(request)

\* a returned real run of two files, one skipped as existing, whose operations ended
\* in the order opposite to that of the returned list
C22_Witness ==
    /\ BatchDone /\ ~dryRun /\ callResult = "returned"
    /\ Cardinality(request) = 2
    /\ \E f \in request : is_file(finalAtStart[f]) /\ f \notin getReq
    /\ \E g \in request : g \in getReq
    /\ Len(completed) = 2
    /\ completed[1] = returned[2]
    /\ completed[2] = returned[1]

\* C23: while a batch runs nothing is raised; an operation that failed has its error
\* as its own outcome; and when the call has raised the aggregate error (or returned),
\* every file of the request has been attempted or skipped as existing and its
\* operation has ended, whatever the outcomes of the other files.
C23_FailuresCollected ==
    /\ dlPc = "running" => (callResult = "none" /\ aggErrors = <<>>)
    /\ \A f \in request :
          wpc[f] = "done" =>
              /\ res[f] # NoRes
              /\ ~res[f].success => res[f].error # "none"
    /\ BatchDone =>
          \A f \in request :
              /\ wpc[f] = "done"
              /\ tries[f] >= 1
              /\ \/ f \in getReq \cup headReq
                 \/ (skipIfExists /\ exists(finalAtStart[f]))

\* a real run that raised the aggregate error: the operation that ended first had
\* failed, the other one went on, transferred its payload and ended as a success
C23_Witness ==
    /\ BatchDone /\ ~dryRun /\ callResult = "DownloadError"
    /\ Len(completed) = 2
    /\ ~res[completed[1]].success
    /\ res[completed[2]].success
    /\ completed[2] \in getReq
    /\ final[completed[2]] = "complete"
    /\ Len(aggErrors) = 1

\* C24: in a real run that has ended, a file has a transient error as its outcome only
\* if at least three attempts of its transfer were made (fewer transient failures are
\* followed by another attempt, whose success is the file's one outcome), and the
\* aggregate error has exactly one entry for each file that failed.
C24_RetryCap ==
    (BatchDone /\ ~dryRun /\ callResult \in {"returned", "DownloadError"}) =>
        /\ \A f \in request :
              (~res[f].success /\ Transient(res[f].error)) => tries[f] >= 3
        /\ Len(aggErrors) = Cardinality({f \in request : ~res[f].success})

\* a download call has run its repair step and the process has not died since
RepairDone == dlPc = "running" \/ callResult \notin {"none", "crashed"}

\* C26: once a download call has begun, and before any of its operations is queued,
\* every temp file that an earlier run left in the directory the downloader writes to
\* is gone: a temp file found there is one this call has opened itself (or one whose
\* deletion failed).
C26_SelfHealing ==
    RepairDone =>
        \A f \in Files :
            (tmp[f] # "absent" /\ f \notin getReq) => f \in unlinkFailed

\* C27: when the repair step of a call on the cache directory has run and no transfer
\* has begun since, the temp names that still hold a file are exactly those whose
\* deletion failed, every other temp name is free, no final name has changed, and the
\* call has gone on to resolve its request whether or not a deletion failed.
C27_RepairDeletesAllAndOnlyTemp ==
    (dirIsCache /\ RepairDone /\ getReq = {}) =>
        /\ \A f \in Files : tmp[f] # "absent" <=> f \in unlinkFailed
        /\ final = finalAtStart
        /\ callResult \in {"none", "returned", "ValueError", "AssertionError",
                            "DownloadSizeCheckError", "DownloadError", "AttributeError"}
        /\ callResult = "none" => request # {}

\* a call on a cache directory that held two temp files: the deletion of one failed,
\* the other one was deleted, and the operations of the call are queued
C27_Witness ==
    /\ dirIsCache /\ dlPc = "running" /\ getReq = {}
    /\ \E f \in unlinkFailed : tmp[f] # "absent"
    /\ \E g \in Files : g \notin unlinkFailed /\ tmp[g] = "absent"
    /\ repairDeleted
    /\ \E f \in request : wpc[f] = "queued"

\* a step of a download call made with dry_run: the call itself, or a step of its batch
DryRunStep == (dlPc = "idle" /\ dryRun') \/ (dlPc = "running" /\ dryRun)

\* C28: no step of a dry run sends a GET request, and none creates, replaces or
\* modifies a file: every final name keeps what it holds, and a temp name keeps what it
\* holds or, deleted by the repair step of the call, is free afterwards.
C28_DryRunMaterialisesNothing ==
    [][DryRunStep =>
          /\ getReq' = {}
          /\ final' = final
          /\ \A f \in Files : tmp'[f] \in {tmp[f], "absent"}]_vars

\* a dry run of two files on a cold cache that has probed both and returned
C28_Witness ==
    /\ BatchDone /\ dryRun /\ callResult = "returned"
    /\ Cardinality(request) = 2
    /\ headReq = request
    /\ getReq = {}
    /\ totalFiles = 2
    /\ \A f \in request : final[f] = "absent" /\ tmp[f] = "absent"

(***************************************************************************)
(* Claims on the worker pool (SpecPool).                                   *)
(***************************************************************************)

\* C21: at every moment of a batch the number of per-file operations in flight is at
\* most the configured worker count for payload transfers, and at most four times
\* that count for the size probes of a dry run.
C21_BoundedParallelism ==
    poolPc = "running" =>
        PoolInFlight <= (IF poolDry THEN 4 * poolConfigured ELSE poolConfigured)

\* a dry run whose probes fill four times the worker count while an operation waits
C21_Witness ==
    /\ poolPc = "running" /\ poolDry
    /\ PoolInFlight = 4 * poolConfigured
    /\ \E i \in Tasks : poolTasks[i] = "queued"
    /\ \E i \in Tasks : poolTasks[i] = "done"

(***************************************************************************)
(* Claims on the catalogue channel (SpecFtp).                              *)
(***************************************************************************)
TransientFtpErrors == {"error_temp", "OSError", "ConnectionError"}

FtpCallEnded == ftpPc = "idle" /\ ftpResult # "none"

\* C25: a call whose first k attempts (k = 1 or 2) failed with a transient error and
\* whose attempt k+1 succeeded returns after exactly k+1 attempts, and if the failures
\* were failures to connect the transfer was made once; a call whose attempts all
\* failed transiently raises after exactly 3 attempts; a call whose first attempt
\* failed with a permanent FTP error raises after exactly one attempt.
C25_FtpRetryPolicy ==
    /\ ftpAttempts <= 3
    /\ FtpCallEnded =>
          LET k == Len(ftpErrors) IN
          /\ ftpResult = "ok" =>
                /\ k \in {0, 1, 2}
                /\ ftpAttempts = k + 1
                /\ \A i \in 1..k : ftpErrors[i].error \in TransientFtpErrors
                /\ (\A i \in 1..k : ftpErrors[i].stage = "connect") => ftpTransfers = 1
          /\ ftpResult # "ok" =>
                /\ ftpAttempts = k
                /\ ftpErrors[k].error = ftpResult
                /\ \A i \in 1..(k - 1) : ftpErrors[i].error \in TransientFtpErrors
                /\ ftpResult \in TransientFtpErrors => ftpAttempts = 3
                /\ ftpErrors[1].error = "error_perm" => ftpAttempts = 1

\* test_worldpop_ftp_download_retries_on_temp_error: the constructor raised error_temp
\* twice, the third attempt connected and made the one transfer
C25_Witness ==
    /\ FtpCallEnded /\ ftpResult = "ok"
    /\ ftpAttempts = 3
    /\ ftpErrors = <<FtpError("connect", "error_temp"), FtpError("connect", "error_temp")>>
    /\ ftpTransfers = 1

(***************************************************************************)
(* Claims on the year token of dataset names (SpecRow).                    *)
(***************************************************************************)
\* the positions of a name at which an underscore is followed by four digits
TokenPositions(name) ==
    {i \in 1..Len(name) :
        /\ i + 4 <= Len(name)
        /\ name[i] = "_"
        /\ \A j \in 1..4 : name[i + j] \in Digits}

\* the number the four digits after position i write
NumberAt(name, i) ==
    1000 * DigitValue(name[i + 1]) + 100 * DigitValue(name[i + 2])
        + 10 * DigitValue(name[i + 3]) + DigitValue(name[i + 4])

\* a name with exactly one year token, whose number is a year in range
HasOneValidToken(name) ==
    /\ Cardinality(TokenPositions(name)) = 1
    /\ \A i \in TokenPositions(name) : NumberAt(name, i) \in 2000..CurrentYear

\* C29: a name is classified annual if and only if it has exactly one substring made
\* of an underscore and four digits and that number lies in [2000, current year];
\* extract_year returns that number for such a name and raises ValueError for every
\* other name.
C29_YearTokenClassification ==
    rowRead =>
        /\ rowAnnual <=> HasOneValidToken(rowName)
        /\ HasOneValidToken(rowName) =>
              \A i \in TokenPositions(rowName) : rowExtracted = <<NumberAt(rowName, i)>>
        /\ ~HasOneValidToken(rowName) => rowExtracted = <<>>

\* the name 'ppp_20_2020': one token, in range, after a number of two digits
C29_Witness ==
    /\ rowRead
    /\ rowName = <<"p", "p", "p", "_", "2", "0", "_", "2", "0", "2", "0">>
    /\ rowAnnual
    /\ rowExtracted = <<2020>>

\* the year token of an annual name: the one position an underscore and four digits
\* stand at
TokenOf(name) == CHOOSE i \in TokenPositions(name) : TRUE

\* the name without the five characters of its year token
WithoutToken(name) ==
    SubSeq(name, 1, TokenOf(name) - 1) \o SubSeq(name, TokenOf(name) + 5, Len(name))

\* a name that holds a year token: an underscore and four digits that write a year
\* in range
HoldsYearToken(name) ==
    \E i \in TokenPositions(name) : NumberAt(name, i) \in 2000..CurrentYear

\* C30: the product_name of an annual entry is its dataset_name without the year
\* token and holds no year token; the product_name of a non-annual entry is its
\* dataset_name, and its year is null.
C30_ProductNameDerivation ==
    rowRead =>
        /\ rowAnnual =>
              /\ rowProduct = WithoutToken(rowName)
              /\ ~HoldsYearToken(rowProduct)
        /\ ~rowAnnual =>
              /\ rowProduct = rowName
              /\ rowYear = <<>>

(***************************************************************************)
(* Claims on the request of a download call (SpecResolve).                 *)
(***************************************************************************)
\* lines 167-168: the local path of each resolved row
RequestPathsOf(rows) == {LocalPath(r) : r \in rows}

\* C31: a request built from a successfully resolved catalogue subset has one pair per
\* resolved row and no two pairs with the same local path.
C31_RequestHasNoDuplicates ==
    qResult.status = "ok" =>
        /\ Cardinality(RequestPathsOf(qResult.rows)) = Cardinality(qResult.rows)
        /\ \A r1, r2 \in qResult.rows : LocalPath(r1) = LocalPath(r2) => r1 = r2

PurgeRemoved ==
    {path \in PurgePathSet : cacheAtPurge[path] # "absent" /\ cacheDir[path] = "absent"}

\* the entries the call found whose name holds 'level0'
Level0Named == {path \in PurgePathSet : Contains(PathName(path), Level0)}

\* the entries the call found and may count and delete
Purgeable ==
    {path \in PurgePathSet :
        /\ cacheAtPurge[path] # "absent"
        /\ ~(purgeKeep /\ path \in Level0Named)}

PurgeReturned == purgePc = "idle" /\ purgeSummary # <<>>

\* C34: a dry purge deletes nothing and reports deleted_files 0; with
\* keep_country_borders no entry named 'level0' is deleted or counted as matched; in a
\* real purge deleted_files is the number of entries removed and is at most
\* matched_files; an unlink that fails is reported and the purge goes on to the end.
C34_PurgeDeletesOnlyWhatItMay ==
    /\ PurgeRemoved \subseteq Purgeable
    /\ purgeDry => (PurgeRemoved = {} /\ num_deleted = 0)
    /\ num_deleted = Cardinality(PurgeRemoved)
    /\ num_deleted <= num_matched
    /\ purgeLogged \cap PurgeRemoved = {}
    /\ PurgeReturned =>
          /\ purgeSummary[1].matched_files = Cardinality(Purgeable)
          /\ purgeSummary[1].deleted_files = Cardinality(PurgeRemoved)
          /\ purgeDry => purgeSummary[1].deleted_files = 0
          /\ ~purgeDry => Purgeable = PurgeRemoved \cup purgeLogged

\* a real purge that keeps the borders has returned: it removed a raster after an
\* unlink had failed, and left a file named 'level0' where it was
C34_Witness ==
    /\ PurgeReturned
    /\ ~purgeDry /\ purgeKeep
    /\ cacheAtPurge[<<Level0 \o <<"_", "a">> >>] = "file"
    /\ cacheDir[<<Level0 \o <<"_", "a">> >>] = "file"
    /\ cacheAtPurge[PurgePaths[1]] = "locked"
    /\ purgeLogged = {PurgePaths[1]}
    /\ PurgePaths[3] \in PurgeRemoved
    /\ purgeSummary[1].deleted_files = 1
    /\ purgeSummary[1].matched_files = 2

(***************************************************************************)
(* Claims on the notes of a catalogue row (SpecRow).                       *)
(***************************************************************************)
\* the numbers that four digits in a row write in a text
NumbersIn(text) ==
    {int(SubSeq(text, i, i + 3)) :
        i \in {j \in 1..Len(text) :
                 j + 3 <= Len(text) /\ \A k \in 0..3 : text[j + k] \in Digits}}

\* C35: in a stored snapshot the notes of an annual entry hold no year (a number of
\* four digits from the first supported year on), while a number of four digits below
\* the first supported year is kept.
C35_NotesNormalised ==
    (rowRead /\ rowAnnual) =>
        /\ \A n \in NumbersIn(rowNotes) : n < FIRST_YEAR
        /\ \A n \in NumbersIn(rowRawNotes) : n < FIRST_YEAR => n \in NumbersIn(rowNotes)

(***************************************************************************)
(* More claims on the catalogue synchronisation (SpecSync).                *)
(***************************************************************************)
\* C36: whenever no build_wp_manifest call is running and a stored hash and a whole
\* stored catalogue both exist, the stored hash is the hash of the payload the stored
\* catalogue was derived from.
C36_HashMatchesSnapshot ==
    (syncPc = "idle" /\ manifestFile # <<>> /\ ~manifestPartial /\ hashFile # <<>>) =>
        hashFile = get_file_md5_hash(manifestFile[1])

(***************************************************************************)
(* More claims on the download engine (SpecDownload).                      *)
(***************************************************************************)
\* the operation of file f ended without a request: the file was skipped
SkippedInThisRun(f) == IF dryRun THEN f \notin headReq ELSE f \notin getReq

\* the other mode, run on the directory as this call found it, skips file f
SkippedInOtherMode(f) ==
    IF dryRun THEN TransferSkips(finalAtStart[f], skipIfExists)
    ELSE ProbeSkips(finalAtStart[f], skipIfExists)

\* C37: for the same request, flag and directory, the files a dry run skips (size 0, no
\* probe) are the files a real run skips without transfer.
C37_DryAndRealAgree ==
    \A f \in request :
        wpc[f] = "done" => (SkippedInThisRun(f) <=> SkippedInOtherMode(f))

(***************************************************************************)
(* Claims on the wildcard 'all' (SpecResolve).                             *)
(***************************************************************************)
\* wp_manifest_constrained was called for an annual product with years='all' and
\* region codes the catalogue knows
WildcardCall ==
    /\ qResult # NoResult
    /\ AnnualRequested
    /\ qYears.kind = "all"
    /\ IsosUnknown = {}

\* the requested regions without an entry of the product
RegionsWithoutEntry == {i \in SeqToSet(qIsos) : YearsOfProductIn(i) = {}}

\* C38: when wp_manifest_constrained returns for an annual product and years='all',
\* every requested region has a row in the result, and a row for every year of the
\* result; a request with a region that has no entry of the product raises the
\* coverage error.
C38_WildcardCompleteness ==
    WildcardCall =>
        /\ qResult.status = "ok" =>
              \A i \in SeqToSet(qIsos) :
                  /\ \E r \in qResult.rows : r.iso3 = i
                  /\ \A y \in UniqueYears(qResult.rows) :
                        \E r \in qResult.rows : r.iso3 = i /\ r.year = y
        /\ RegionsWithoutEntry # {} => CoverageError(qResult)

(***************************************************************************)
(* Claims on download calls that share the cache directory (SpecConc).     *)
(***************************************************************************)
\* C39: the repair step of a download call never removes the temp file of a transfer
\* another call has in flight, and every transfer that received its whole payload is
\* found under its final name and ends as a success.
C39_RepairSparesTransfers ==
    \A f \in Files :
        /\ ~coDisrupted[f]
        /\ (coPc[f] = "done" /\ coFull[f]) =>
              (coFinal[f] = "complete" /\ coRes[f] = "success")

(***************************************************************************)
(* Claims on the end of a batch (SpecBatch).                               *)
(***************************************************************************)
\* a download call that ran a batch has ended
BatchEnded == dlPc = "idle" /\ request # {}

\* C40: provided every request returns or fails, a download call that runs a batch
\* ends; then every per-file operation has ended within the cap of attempts, no worker
\* runs, and the call has returned its result or raised the aggregate error.
C40_BatchTerminates ==
    /\ (dlPc = "running") ~> (dlPc = "idle")
    /\ [](BatchEnded =>
            /\ \A f \in request : wpc[f] = "done" /\ tries[f] \in 1..DownloadMaxTries
            /\ InFlight = 0
            /\ callResult \in {"returned", "DownloadError", "DownloadSizeCheckError"})

====
